---- MODULE Spec2Model ----
(***************************************************************************)
(* Verification model of the infinite canvas engine:                       *)
(*   - MasonryLayout (src/src/lib/masonry.ts): asynchronous getItems       *)
(*     calls, the initialization promise, the pendingUpdate chain and the  *)
(*     column fills, interleaved at the generator awaits;                  *)
(*   - SectorStore (src/unnamed/part_004) with the InfiniteArtGrid         *)
(*     handlers that use it (src/src/components/ArtworkGrid.jsx).          *)
(* Lengths are scaled down (a column is 2 wide, an item 1 or 2 high); the  *)
(* formulas of the code are kept as written.                               *)
(***************************************************************************)
EXTENDS Integers, Sequences, FiniteSets, TLC

\* ------------------------------------------------------------------ bounds
\* getItems calls issued in one behaviour, overlapping freely.
MaxCalls == 2
\* getItems calls issued in one behaviour when each is awaited before the next.
MaxSeqCalls == 3
\* Generator calls made in one behaviour.
MaxGen == 24
\* Generator calls that reject.
MaxRejects == 1

\* ------------------------------------------------------------------ configuration
\* MasonryLayoutConfig of the instance under study.
Cfg == [columnWidth |-> 2, columnGap |-> 1, rowGap |-> 1, originX |-> 0, originY |-> 0]

\* Natural dimensions of generated images (MasonryImage.width/height); a
\* dimension that is not finite (NaN, Infinity, undefined) has its flag FALSE.
\* With columnWidth 2, Wide scales to height 1 and Square to height 2; the
\* other two are refused by computeScaledHeight.
Wide == [width |-> 2, height |-> 1, widthFinite |-> TRUE, heightFinite |-> TRUE]
Square == [width |-> 1, height |-> 1, widthFinite |-> TRUE, heightFinite |-> TRUE]
NoWidth == [width |-> 0, height |-> 1, widthFinite |-> TRUE, heightFinite |-> TRUE]
NoHeight == [width |-> 1, height |-> 0, widthFinite |-> TRUE, heightFinite |-> FALSE]

\* Generators: like createMockGenerator of masonry.test.ts, a generator cycles
\* through a pool of images (pool[index % pool.length]).
Pools ==
  { <<Square, Wide>>, <<Wide, Square>>, <<Square, Square>>, <<Wide, Wide>>,
    <<Square, NoWidth>>, <<NoHeight, Wide>>, <<NoWidth, NoHeight>> }

\* Viewports the caller asks for: the start view and a jump of two columns to
\* the right; with awaited calls also a move above the origin and a move of
\* one column to the left.
Views ==
  { [x |-> 0, y |-> 0, width |-> 1, height |-> 1],
    [x |-> 6, y |-> 0, width |-> 1, height |-> 1] }

SeqViews ==
  Views \cup { [x |-> 0, y |-> -2, width |-> 1, height |-> 1],
               [x |-> -3, y |-> 0, width |-> 1, height |-> 1] }

BASE_OVERSCAN_MULTIPLIER == 1

Null == <<>>
Some(v) == <<v>>

Max2(a, b) == IF a >= b THEN a ELSE b
Min2(a, b) == IF a <= b THEN a ELSE b

VARIABLES
  \* MasonryLayout
  columns,                \* state.columns: columnIndex -> items (top to bottom)
  placedImages,           \* state.placedImages: uids in push order
  columnBounds,           \* columnBounds {min, max}, Null or Some(index)
  nextUid,                \* identity of the next PlacedImage object
  initializationPromise,  \* "null" or "pending"
  initTask,               \* the initialize() coroutine; discards (history): the
                          \* results its fill loop discarded in a row
  pendingUpdate,          \* the unit whose scheduled.catch() promise is stored
  units,                  \* processBorders coroutines, in scheduling order
  calls,                  \* getItems coroutines, in issue order
  pool,                   \* the generator's pool of images
  genCalls,               \* the generator's index: calls made so far
  rejectCount,
  \* SectorStore and InfiniteArtGrid
  sectors,                \* SectorStore.sectors: key -> Sector
  order,                  \* SectorStore.order: the keys of the Map, in insertion order
  bounds,                 \* SectorStore.bounds: Null or Some(SectorBounds)
  maxSectors,             \* SectorStore.maxSectors
  artworkCount,           \* artworks.length
  touchLog,               \* history: resident keys, least recently touched first
  createLog,              \* history: resident keys, in creation order
  evicted,                \* history: the removals made by the handler that ran last
  lastOp,                 \* history: the handler that ran last
  firstIndex,             \* history: the first artworkIndex seen at a tracked coordinate
  \* createAICImageGenerator
  options,                \* options: seed, refillThreshold
  buffer,                 \* buffer: images fetched and not yet returned
  nextPage,               \* nextPage: Null or Some(page)
  totalPages,             \* totalPages: Null or Some(pages)
  inflight,               \* inflight: Null or the fetchNextBatch coroutine
  seenIds,                \* seenIds
  awaiting,               \* generator calls awaiting ensureBatch()
  resumed,                \* generator calls whose await resolved, not yet continued
  returned,               \* history: the images the generator returned, in order
  fetchHistory,           \* history: pages requested, a page requested again,
                          \* an artwork refused because its id was seen, the
                          \* fetchNextBatch coroutines running, the outcomes
                          \* after which the marker was cleared
  \* chunks
  chunks,                 \* the chunk coordinates given to encodeChunkIndex
  chunkIndex,             \* the results, Null before the call
  chunkPage,              \* the pages resolved from the results, Null before the call
  \* App (chunk loader)
  chunkStore,             \* chunkStoreRef.current: key -> status
  inflightChunks,         \* inflightChunksRef.current
  totalPagesRef,          \* totalPagesRef.current
  fetches,                \* ensureChunkLoaded coroutines at their await
  skips,                  \* history: the reasons ensureChunkLoaded returned early
  \* mapping
  cell,                   \* the col, row and seed given to stableArtworkIndex
  mapped,                 \* artworkCount -> the result, Null before the call
  \* callers of getDebugColumns / getDebugPlacedImages
  debugHeld,              \* the item objects the getters returned to the caller
  scribbled,              \* history: the uids of the returned objects the caller wrote to
  \* computeMasonryDisplay
  display,                \* the column of the call, Null before it
  displayPc,              \* "idle", "heal" (in the loop of healColumnGaps), "returned"
  healCount,              \* history: passes of the loop of healColumnGaps
  \* computeMasonryLayout
  waterfall,              \* the call: its inputs, the loop index i and the locals, Null before it
  \* useGridItems
  requestIdRef,           \* requestIdRef.current
  prevViewRef,            \* prevViewRef.current, Null or Some(view)
  dynamicItems,           \* dynamicItems: the request whose result it holds
  gridRequests,           \* the requests whose promise is pending
  \* InfiniteArtGrid pages
  requestedPages,         \* requestedPages.current
  debounceRef,            \* debounceRef.current: Null or Some(page of the timer's closure)
  grid,                   \* the state hasMore, nextPage, loading, error (set or not)
  pageLog                 \* history: per page the fetches started, failed and
                          \* succeeded, the mount effects run, the last loadPage

mvars == <<columns, placedImages, columnBounds, nextUid, initializationPromise,
           initTask, pendingUpdate, units, calls, pool, genCalls, rejectCount>>

svars == <<sectors, order, bounds, maxSectors, artworkCount, touchLog, createLog,
           evicted, lastOp, firstIndex>>

avars == <<options, buffer, nextPage, totalPages, inflight, seenIds, awaiting,
           resumed, returned, fetchHistory>>

cvars == <<chunks, chunkIndex, chunkPage>>

lvars == <<chunkStore, inflightChunks, totalPagesRef, fetches, skips>>

hvars == <<cell, mapped>>

dvars == <<debugHeld, scribbled>>

gvars == <<display, displayPc, healCount>>

wvars == <<waterfall>>

uvars == <<requestIdRef, prevViewRef, dynamicItems, gridRequests>>

pvars == <<requestedPages, debounceRef, grid, pageLog>>

vars == <<columns, placedImages, columnBounds, nextUid, initializationPromise,
          initTask, pendingUpdate, units, calls, pool, genCalls, rejectCount,
          sectors, order, bounds, maxSectors, artworkCount, touchLog, createLog,
          evicted, lastOp, firstIndex, options, buffer, nextPage, totalPages,
          inflight, seenIds, awaiting, resumed, returned, fetchHistory, chunks,
          chunkIndex, chunkPage, chunkStore, inflightChunks, totalPagesRef, fetches, skips,
          cell, mapped, debugHeld, scribbled, display, displayPc, healCount,
          waterfall, requestIdRef, prevViewRef, dynamicItems, gridRequests,
          requestedPages, debounceRef, grid, pageLog>>

\* ------------------------------------------------------------------ geometry
columnSpan == Cfg.columnWidth + Cfg.columnGap

horizontalOverscan == Max2(columnSpan, 1) * BASE_OVERSCAN_MULTIPLIER

verticalOverscan == Max2(Max2(Cfg.columnWidth, Cfg.rowGap * 2), 1) * BASE_OVERSCAN_MULTIPLIER

getColumnRangeForXSpan(startX, endX) ==
  LET left == Min2(startX, endX)
      right == Max2(startX, endX)
  IN [min |-> (left - Cfg.originX) \div columnSpan,
      max |-> (right - Cfg.originX) \div columnSpan]

\* The column range of the viewport alone, without the horizontal overscan.
RangeWithoutOverscan(view) ==
  getColumnRangeForXSpan(view.x, view.x + view.width)

getRequiredColumnRange(view) ==
  getColumnRangeForXSpan(view.x - horizontalOverscan,
                         view.x + view.width + horizontalOverscan)

BorderTop(view) == view.y - verticalOverscan
BorderBottom(view) == view.y + view.height + verticalOverscan

\* ------------------------------------------------------------------ layout state
\* The mutable layout as one value: L.columns, L.placedImages, L.columnBounds,
\* L.nextUid.
Layout == [columns |-> columns, placedImages |-> placedImages,
           columnBounds |-> columnBounds, nextUid |-> nextUid]

\* getOrCreateColumn without the lookup of the existing column.
AlwaysCreateColumn(L, columnIndex) ==
  [L EXCEPT
     !.columns = [c \in (DOMAIN L.columns) \cup {columnIndex} |->
                    IF c = columnIndex THEN <<>> ELSE L.columns[c]]]

getOrCreateColumn(L, columnIndex) ==
  IF columnIndex \in DOMAIN L.columns THEN L
  ELSE [L EXCEPT
          !.columns = [c \in (DOMAIN L.columns) \cup {columnIndex} |->
                         IF c = columnIndex THEN <<>> ELSE L.columns[c]],
          !.columnBounds =
             [min |-> IF L.columnBounds.min = Null \/ columnIndex < L.columnBounds.min[1]
                      THEN Some(columnIndex) ELSE L.columnBounds.min,
              max |-> IF L.columnBounds.max = Null \/ columnIndex > L.columnBounds.max[1]
                      THEN Some(columnIndex) ELSE L.columnBounds.max]]

RECURSIVE EnsureRange(_, _, _)
EnsureRange(L, idx, max) ==
  IF idx > max THEN L ELSE EnsureRange(getOrCreateColumn(L, idx), idx + 1, max)

ensureColumnsCoverViewport(L, view) ==
  LET r == getRequiredColumnRange(view) IN EnsureRange(L, r.min, r.max)

rectanglesOverlapVertically(a, b, verticalGapTolerance) ==
  /\ a.y + a.height + verticalGapTolerance > b.y
  /\ b.y + b.height + verticalGapTolerance > a.y

\* items: the column's items, insertedIndex 1-based.
healColumnAfterTopInsertion(items, insertedIndex) ==
  IF insertedIndex + 1 > Len(items) THEN items
  ELSE LET inserted == items[insertedIndex]
           below == items[insertedIndex + 1]
       IN IF ~rectanglesOverlapVertically(inserted, below, -Cfg.rowGap) THEN items
          ELSE LET desiredY == below.y - Cfg.rowGap - inserted.height
                   delta == desiredY - inserted.y
               IN IF delta = 0 THEN items
                  ELSE [i \in 1..Len(items) |->
                          IF i <= insertedIndex THEN [items[i] EXCEPT !.y = @ + delta]
                          ELSE items[i]]

healColumnAfterBottomInsertion(items, insertedIndex) ==
  IF insertedIndex - 1 < 1 THEN items
  ELSE LET inserted == items[insertedIndex]
           above == items[insertedIndex - 1]
       IN IF ~rectanglesOverlapVertically(above, inserted, -Cfg.rowGap) THEN items
          ELSE LET desiredY == above.y + above.height + Cfg.rowGap
                   delta == desiredY - inserted.y
               IN IF delta = 0 THEN items
                  ELSE [i \in 1..Len(items) |->
                          IF i >= insertedIndex THEN [items[i] EXCEPT !.y = @ + delta]
                          ELSE items[i]]

\* getColumnX with the column width for the span.
XWithoutGap(columnIndex) == Cfg.originX + columnIndex * Cfg.columnWidth

getColumnX(columnIndex) == Cfg.originX + columnIndex * columnSpan

\* createPlacedImage: the object of a new item; image stands for the id and
\* the content it takes from the generated image. call and fn record which
\* getItems call and which fill function placed it (history, not program state).
createPlacedImage(L, image, columnIndex, y, height, call, fn) ==
  [uid |-> L.nextUid, image |-> image, x |-> getColumnX(columnIndex), y |-> y,
   width |-> Cfg.columnWidth, height |-> height, columnIndex |-> columnIndex,
   call |-> call, fn |-> fn]

\* PushBottom without placedImages.push(placed).
PushToColumnOnly(L, image, columnIndex, y, height, call, fn) ==
  LET placed == createPlacedImage(L, image, columnIndex, y, height, call, fn)
      pushed == Append(L.columns[columnIndex], placed)
  IN [L EXCEPT !.columns[columnIndex] = healColumnAfterBottomInsertion(pushed, Len(pushed)),
               !.nextUid = @ + 1]

\* column.items.push(placed); placedImages.push(placed); healColumnAfterBottomInsertion
PushBottom(L, image, columnIndex, y, height, call, fn) ==
  LET placed == createPlacedImage(L, image, columnIndex, y, height, call, fn)
      pushed == Append(L.columns[columnIndex], placed)
  IN [L EXCEPT !.columns[columnIndex] = healColumnAfterBottomInsertion(pushed, Len(pushed)),
               !.placedImages = Append(@, placed.uid),
               !.nextUid = @ + 1]

\* The new item takes the y of the item that was on top and the rows of the
\* column move down by its height and the row gap.
UnshiftPushingDown(L, image, columnIndex, y, height, call, fn) ==
  LET items == L.columns[columnIndex]
      placed == createPlacedImage(L, image, columnIndex,
                                  IF Len(items) > 0 THEN items[1].y ELSE y,
                                  height, call, fn)
  IN [L EXCEPT !.columns[columnIndex] =
                 <<placed>> \o [i \in 1..Len(items) |->
                                 [items[i] EXCEPT !.y = @ + height + Cfg.rowGap]],
               !.placedImages = Append(@, placed.uid),
               !.nextUid = @ + 1]

\* column.items.unshift(placed); placedImages.push(placed); healColumnAfterTopInsertion
UnshiftTop(L, image, columnIndex, y, height, call, fn) ==
  LET placed == createPlacedImage(L, image, columnIndex, y, height, call, fn)
      pushed == <<placed>> \o L.columns[columnIndex]
  IN [L EXCEPT !.columns[columnIndex] = healColumnAfterTopInsertion(pushed, 1),
               !.placedImages = Append(@, placed.uid),
               !.nextUid = @ + 1]

\* y + height + rowGap of the last item, read from the column.
CursorBelowLast(items) ==
  items[Len(items)].y + items[Len(items)].height + Cfg.rowGap

\* ------------------------------------------------------------------ images
\* Math.round of a / b for a >= 0, b > 0.
RoundDiv(a, b) == (2 * a + b) \div (2 * b)

\* computeScaledHeight without the checks of the height.
ChecksWidthOnly(image) ==
  IF ~image.widthFinite \/ image.width <= 0
  THEN Null
  ELSE Some(Max2(1, RoundDiv(image.height * Cfg.columnWidth, image.width)))

computeScaledHeight(image) ==
  IF \/ ~image.widthFinite
     \/ image.width <= 0
     \/ ~image.heightFinite
     \/ image.height <= 0
  THEN Null
  ELSE Some(Max2(1, RoundDiv(image.height * Cfg.columnWidth, image.width)))

\* ------------------------------------------------------------------ coroutines
\* A coroutine is suspended at `await this.state.generator()` (st = "await")
\* with its locals, or has run to its end (st = "done"). phase is the loop it
\* is in, col the column, ref the uid of the captured topItem, pos the local
\* cursorY / y.
Await(phase, col, ref, pos) ==
  [st |-> "await", phase |-> phase, col |-> col, ref |-> ref, pos |-> pos]

Finished == [st |-> "done", phase |-> "end", col |-> 0, ref |-> 0, pos |-> 0]

\* fillColumnDownward: the cursor before the loop.
FillStart(items) == IF Len(items) > 0 THEN CursorBelowLast(items) ELSE Cfg.originY

\* initialize: the for loop from columnIndex on, up to the next generator call.
RECURSIVE InitializeFrom(_, _, _)
InitializeFrom(L, view, columnIndex) ==
  IF columnIndex > getRequiredColumnRange(view).max THEN [L |-> L, k |-> Finished]
  ELSE LET L1 == getOrCreateColumn(L, columnIndex)
           cursorY == FillStart(L1.columns[columnIndex])
       IN IF cursorY < BorderBottom(view)
          THEN [L |-> L1, k |-> Await("fill", columnIndex, 0, cursorY)]
          ELSE InitializeFrom(L1, view, columnIndex + 1)

initialize(L, view) ==
  InitializeFrom(ensureColumnsCoverViewport(L, view), view,
                 getRequiredColumnRange(view).min)

\* fillColumnDownward after the generator returned an image of scaled height
\* `height`: place at the local cursorY, heal, re-read the cursor.
fillColumnDownward(L, view, k, image, height, call) ==
  LET L1 == PushBottom(L, image, k.col, k.pos, height, call, "fillColumnDownward")
      cursorY == CursorBelowLast(L1.columns[k.col])
  IN IF cursorY < BorderBottom(view)
     THEN [L |-> L1, k |-> Await("fill", k.col, 0, cursorY)]
     ELSE InitializeFrom(L1, view, k.col + 1)

\* populateNewColumn: where the fill of a new column starts.
PopulateStartFromView(view) == view.y
populateStart(view) == BorderTop(view)

\* processBorders from (phase, col) on, up to the next generator call.
\* top:    extendColumnsOnTop / extendColumnUpward
\* right:  extendColumnsOnRight / populateNewColumn
\* left:   extendColumnsOnLeft / populateNewColumn
\* bottom: extendColumnsOnBottom / extendColumnDownward
\* The fills in the order bottom, right, left, top.
BottomFirst(phase) ==
  CASE phase = "start" -> "enterBottom"
    [] phase = "bottom" -> "enterRight"
    [] phase = "right" -> "enterLeft"
    [] phase = "left" -> "enterTop"
    [] phase = "top" -> "end"

\* The await that follows each fill of processBorders.
BorderAfter(phase) ==
  CASE phase = "start" -> "enterTop"
    [] phase = "top" -> "enterRight"
    [] phase = "right" -> "enterLeft"
    [] phase = "left" -> "enterBottom"
    [] phase = "bottom" -> "end"

RECURSIVE ProcessFrom(_, _, _, _)
ProcessFrom(L, view, phase, col) ==
  LET r == getRequiredColumnRange(view) IN
  CASE phase = "enterTop" -> ProcessFrom(L, view, "top", r.min)
    [] phase = "top" ->
         IF col > r.max THEN ProcessFrom(L, view, BorderAfter("top"), 0)
         ELSE IF col \notin DOMAIN L.columns \/ Len(L.columns[col]) = 0
              THEN ProcessFrom(L, view, "top", col + 1)
         ELSE IF L.columns[col][1].y <= BorderTop(view)
              THEN ProcessFrom(L, view, "top", col + 1)
         ELSE [L |-> L, k |-> Await("top", col, L.columns[col][1].uid, 0)]
    [] phase = "enterRight" ->
         IF L.columnBounds.max = Null THEN ProcessFrom(L, view, BorderAfter("right"), 0)
         ELSE ProcessFrom(L, view, "right", L.columnBounds.max[1])
    [] phase = "right" ->
         IF col > r.max THEN ProcessFrom(L, view, BorderAfter("right"), 0)
         ELSE LET L1 == getOrCreateColumn(L, col) IN
              IF Len(L1.columns[col]) = 0 /\ populateStart(view) < BorderBottom(view)
              THEN [L |-> L1, k |-> Await("right", col, 0, populateStart(view))]
              ELSE ProcessFrom(L1, view, "right", col + 1)
    [] phase = "enterLeft" ->
         IF L.columnBounds.min = Null THEN ProcessFrom(L, view, BorderAfter("left"), 0)
         ELSE ProcessFrom(L, view, "left", L.columnBounds.min[1])
    [] phase = "left" ->
         IF col < r.min THEN ProcessFrom(L, view, BorderAfter("left"), 0)
         ELSE LET L1 == getOrCreateColumn(L, col) IN
              IF Len(L1.columns[col]) = 0 /\ populateStart(view) < BorderBottom(view)
              THEN [L |-> L1, k |-> Await("left", col, 0, populateStart(view))]
              ELSE ProcessFrom(L1, view, "left", col - 1)
    [] phase = "enterBottom" -> ProcessFrom(L, view, "bottom", r.min)
    [] phase = "bottom" ->
         IF col > r.max THEN ProcessFrom(L, view, BorderAfter("bottom"), 0)
         ELSE IF col \notin DOMAIN L.columns \/ Len(L.columns[col]) = 0
              THEN ProcessFrom(L, view, "bottom", col + 1)
         ELSE LET y == CursorBelowLast(L.columns[col]) IN
              IF y >= BorderBottom(view) THEN ProcessFrom(L, view, "bottom", col + 1)
              ELSE [L |-> L, k |-> Await("bottom", col, 0, y)]
    [] phase = "end" -> [L |-> L, k |-> Finished]

processBorders(L, view) ==
  ProcessFrom(ensureColumnsCoverViewport(L, view), view, BorderAfter("start"), 0)

\* The item object a coroutine holds a reference to.
ItemByUid(items, uid) == items[CHOOSE i \in 1..Len(items) : items[i].uid = uid]

\* A border coroutine after the generator returned an image of scaled height
\* `height`.
ResumePlaced(L, view, k, image, height, call) ==
  CASE k.phase = "top" ->
         LET topItem == ItemByUid(L.columns[k.col], k.ref)
             y == topItem.y - Cfg.rowGap - height
         IN ProcessFrom(UnshiftTop(L, image, k.col, y, height, call, "extendColumnUpward"),
                        view, "top", k.col)
    [] k.phase \in {"right", "left"} ->
         LET L1 == PushBottom(L, image, k.col, k.pos, height, call, "populateNewColumn")
             cursorY == CursorBelowLast(L1.columns[k.col])
         IN IF cursorY < BorderBottom(view)
            THEN [L |-> L1, k |-> Await(k.phase, k.col, 0, cursorY)]
            ELSE ProcessFrom(L1, view, k.phase,
                             IF k.phase = "right" THEN k.col + 1 ELSE k.col - 1)
    [] k.phase = "bottom" ->
         ProcessFrom(PushBottom(L, image, k.col, k.pos, height, call, "extendColumnDownward"),
                     view, "bottom", k.col)

\* A border coroutine after computeScaledHeight returned null (`continue`).
ResumeDiscarded(L, view, k) ==
  IF k.phase \in {"top", "bottom"} THEN ProcessFrom(L, view, k.phase, k.col)
  ELSE [L |-> L, k |-> k]

\* ------------------------------------------------------------------ promises
\* State of the promise `scheduled` of a unit.
ScheduledState(status) ==
  CASE status \in {"queued", "running"} -> "pending"
    [] status = "resolved" -> "fulfilled"
    [] status = "rejected" -> "rejected"

\* scheduled.catch(() => {}): a rejection is swallowed.
KeepRejection(state) == state
SwallowRejection(state) == IF state = "rejected" THEN "fulfilled" ELSE state

\* State of the promise stored in this.pendingUpdate when unit p was the last
\* one scheduled (0: the initial Promise.resolve()).
PendingUpdateState(p) ==
  IF p = 0 THEN "fulfilled" ELSE SwallowRejection(ScheduledState(units[p].status))

\* this.pendingUpdate.then(...): the callback waits for the stored promise.
NotChained(p) == TRUE
ChainSettled(p) == PendingUpdateState(p) # "pending"

\* Settled state of the promise getItems returned for call i.
CallStatus(i) ==
  LET c == calls[i] IN
  CASE c.pc = "awaitInit" -> IF initTask.status = "rejected" THEN "rejected" ELSE "pending"
    [] c.pc = "awaitBorder" ->
         IF units[c.unit].status = "resolved" THEN "resolved"
         ELSE IF units[c.unit].status = "rejected" THEN "rejected"
         ELSE "pending"

\* Nothing is in flight: every getItems promise is settled.
Quiet ==
  /\ initTask.status # "pending"
  /\ \A i \in 1..Len(calls) : CallStatus(i) # "pending"

\* ------------------------------------------------------------------ initial state
MStart(p) ==
  /\ columns = <<>>
  /\ placedImages = <<>>
  /\ columnBounds = [min |-> Null, max |-> Null]
  /\ nextUid = 1
  /\ initializationPromise = "null"
  /\ initTask = [status |-> "none", view |-> CHOOSE v \in Views : TRUE, call |-> 0,
                 k |-> Finished, image |-> Wide, discards |-> 0]
  /\ pendingUpdate = 0
  /\ units = <<>>
  /\ calls = <<>>
  /\ pool = p
  /\ genCalls = 0
  /\ rejectCount = 0

\* new MasonryLayout(config) over any of the generators.
MInit == \E p \in Pools : MStart(p)

SetLayout(L) ==
  /\ columns' = L.columns
  /\ placedImages' = L.placedImages
  /\ columnBounds' = L.columnBounds
  /\ nextUid' = L.nextUid

\* The image the generator returns for its next call (the mock generator
\* picks it when it is called).
NextImage == pool[(genCalls % Len(pool)) + 1]

\* A coroutine that stopped at an await has called the generator once more.
CallGenerator(k) ==
  /\ k.st = "await" => genCalls < MaxGen
  /\ genCalls' = IF k.st = "await" THEN genCalls + 1 ELSE genCalls

StatusAfter(k, settled) == IF k.st = "await" THEN "pending" ELSE settled

\* ------------------------------------------------------------------ actions
\* scheduleBorderUpdates(view) of call i: chain a unit behind pendingUpdate and
\* store its caught promise.
NewUnit(i, view) ==
  [call |-> i, view |-> view, status |-> "queued", started |-> FALSE,
   prev |-> pendingUpdate, k |-> Finished, image |-> Wide, discards |-> 0]

\* getItems(view) up to its first wait for work: ensureInitialized with the
\* synchronous part of initialize when this call starts it; when
\* ensureInitialized returns at once, the call goes on to
\* scheduleBorderUpdates before any generator result arrives.
\* repeat (history): the call repeats the view of the call before it, which
\* has resolved, and nothing is in flight.
GetItemsCall(view) ==
  /\ LET i == Len(calls) + 1
         repeat == /\ Len(calls) > 0
                   /\ calls[Len(calls)].view = view
                   /\ CallStatus(Len(calls)) = "resolved"
                   /\ Quiet
         new(pc, unit) == [view |-> view, pc |-> pc, unit |-> unit, repeat |-> repeat]
     IN IF Cardinality(DOMAIN columns) > 0
        THEN /\ calls' = Append(calls, new("awaitBorder", Len(units) + 1))
             /\ units' = Append(units, NewUnit(i, view))
             /\ pendingUpdate' = Len(units) + 1
             /\ UNCHANGED <<columns, placedImages, columnBounds, nextUid,
                            initializationPromise, initTask, genCalls>>
        ELSE IF initializationPromise = "null"
        THEN LET r == initialize(Layout, view) IN
             /\ SetLayout(r.L)
             /\ CallGenerator(r.k)
             /\ initTask' = [status |-> StatusAfter(r.k, "fulfilled"), view |-> view,
                             call |-> i, k |-> r.k, image |-> NextImage, discards |-> 0]
             /\ initializationPromise' = StatusAfter(r.k, "null")
             /\ calls' = Append(calls, new("awaitInit", 0))
             /\ UNCHANGED <<units, pendingUpdate>>
        ELSE /\ calls' = Append(calls, new("awaitInit", 0))
             /\ UNCHANGED <<columns, placedImages, columnBounds, nextUid,
                            initializationPromise, initTask, genCalls, units,
                            pendingUpdate>>
  /\ UNCHANGED <<pool, rejectCount>>

\* getItems of a call that waited for the initialization, once it is
\* fulfilled: scheduleBorderUpdates. Continuations of the same promise run in
\* the order they were registered.
ScheduleBorderUpdates(i) ==
  /\ i \in 1..Len(calls)
  /\ calls[i].pc = "awaitInit"
  /\ initTask.status = "fulfilled"
  /\ \A j \in 1..(i - 1) : calls[j].pc # "awaitInit"
  /\ units' = Append(units, NewUnit(i, calls[i].view))
  /\ pendingUpdate' = Len(units) + 1
  /\ calls' = [calls EXCEPT ![i] = [@ EXCEPT !.pc = "awaitBorder", !.unit = Len(units) + 1]]
  /\ UNCHANGED <<columns, placedImages, columnBounds, nextUid, initializationPromise,
                 initTask, pool, genCalls, rejectCount>>

UnitStatusAfter(k) == IF k.st = "await" THEN "running" ELSE "resolved"

\* The callback of pendingUpdate.then runs: processBorders up to its first
\* generator call. A rejected pendingUpdate rejects `scheduled` without
\* running the callback.
StartBorder(u) ==
  /\ u \in 1..Len(units)
  /\ units[u].status = "queued"
  /\ ChainSettled(units[u].prev)
  /\ IF PendingUpdateState(units[u].prev) = "rejected"
     THEN /\ units' = [units EXCEPT ![u] = [@ EXCEPT !.status = "rejected"]]
          /\ UNCHANGED <<columns, placedImages, columnBounds, nextUid, genCalls>>
     ELSE LET r == processBorders(Layout, units[u].view) IN
          /\ SetLayout(r.L)
          /\ CallGenerator(r.k)
          /\ units' = [units EXCEPT ![u] =
                         [@ EXCEPT !.status = UnitStatusAfter(r.k), !.started = TRUE,
                                   !.k = r.k, !.image = NextImage]]
  /\ UNCHANGED <<initializationPromise, initTask, pendingUpdate, calls, pool, rejectCount>>

\* The generator call of initialize resolves: fillColumnDownward goes on, with
\* `continue` when computeScaledHeight returns null.
InitGeneratorResolves ==
  /\ initTask.status = "pending"
  /\ LET h == computeScaledHeight(initTask.image)
         r == IF h = Null THEN [L |-> Layout, k |-> initTask.k]
              ELSE fillColumnDownward(Layout, initTask.view, initTask.k, initTask.image, h[1],
                                      initTask.call)
     IN /\ SetLayout(r.L)
        /\ CallGenerator(r.k)
        /\ initTask' = [initTask EXCEPT !.k = r.k, !.status = StatusAfter(r.k, "fulfilled"),
                                        !.image = NextImage,
                                        !.discards = IF h = Null THEN @ + 1 ELSE 0]
        /\ initializationPromise' = StatusAfter(r.k, "null")
  /\ UNCHANGED <<pendingUpdate, units, calls, pool, rejectCount>>

\* The generator call of initialize rejects: initialize rejects, finally()
\* clears the promise.
InitGeneratorRejects ==
  /\ initTask.status = "pending"
  /\ rejectCount < MaxRejects
  /\ rejectCount' = rejectCount + 1
  /\ initTask' = [initTask EXCEPT !.status = "rejected", !.k = Finished]
  /\ initializationPromise' = "null"
  /\ UNCHANGED <<columns, placedImages, columnBounds, nextUid, pendingUpdate, units,
                 calls, pool, genCalls>>

\* The generator call of a running processBorders resolves.
BorderGeneratorResolves(u) ==
  /\ u \in 1..Len(units)
  /\ units[u].status = "running"
  /\ LET h == computeScaledHeight(units[u].image)
         r == IF h = Null THEN ResumeDiscarded(Layout, units[u].view, units[u].k)
              ELSE ResumePlaced(Layout, units[u].view, units[u].k, units[u].image, h[1],
                                units[u].call)
     IN /\ SetLayout(r.L)
        /\ CallGenerator(r.k)
        /\ units' = [units EXCEPT ![u] =
                       [@ EXCEPT !.status = UnitStatusAfter(r.k), !.k = r.k,
                                 !.image = NextImage,
                                 !.discards = IF h = Null THEN @ + 1 ELSE 0]]
  /\ UNCHANGED <<initializationPromise, initTask, pendingUpdate, calls, pool, rejectCount>>

\* The generator call of a running processBorders rejects.
BorderGeneratorRejects(u) ==
  /\ u \in 1..Len(units)
  /\ units[u].status = "running"
  /\ rejectCount < MaxRejects
  /\ rejectCount' = rejectCount + 1
  /\ units' = [units EXCEPT ![u] = [@ EXCEPT !.status = "rejected", !.k = Finished]]
  /\ UNCHANGED <<columns, placedImages, columnBounds, nextUid, initializationPromise,
                 initTask, pendingUpdate, calls, pool, genCalls>>

\* A getItems call issued at any time, also while earlier calls are in flight.
GetItems(view) ==
  /\ Len(calls) < MaxCalls
  /\ GetItemsCall(view)

\* A getItems call issued after every earlier call has settled.
AwaitedGetItems(view) ==
  /\ Len(calls) < MaxSeqCalls
  /\ Quiet
  /\ GetItemsCall(view)

MNext ==
  /\ \/ \E view \in Views : GetItems(view)
     \/ \E i \in 1..Len(calls) : ScheduleBorderUpdates(i)
     \/ \E u \in 1..Len(units) : StartBorder(u)
     \/ InitGeneratorResolves
     \/ InitGeneratorRejects
     \/ \E u \in 1..Len(units) : BorderGeneratorResolves(u)
     \/ \E u \in 1..Len(units) : BorderGeneratorRejects(u)
  /\ UNCHANGED svars
  /\ UNCHANGED avars
  /\ UNCHANGED cvars
  /\ UNCHANGED lvars
  /\ UNCHANGED hvars
  /\ UNCHANGED dvars
  /\ UNCHANGED gvars
  /\ UNCHANGED wvars
  /\ UNCHANGED uvars
  /\ UNCHANGED pvars

MSeqNext ==
  /\ \/ \E view \in SeqViews : AwaitedGetItems(view)
     \/ \E i \in 1..Len(calls) : ScheduleBorderUpdates(i)
     \/ \E u \in 1..Len(units) : StartBorder(u)
     \/ InitGeneratorResolves
     \/ InitGeneratorRejects
     \/ \E u \in 1..Len(units) : BorderGeneratorResolves(u)
     \/ \E u \in 1..Len(units) : BorderGeneratorRejects(u)
  /\ UNCHANGED svars
  /\ UNCHANGED avars
  /\ UNCHANGED cvars
  /\ UNCHANGED lvars
  /\ UNCHANGED hvars
  /\ UNCHANGED dvars
  /\ UNCHANGED gvars
  /\ UNCHANGED wvars
  /\ UNCHANGED uvars
  /\ UNCHANGED pvars

\* ------------------------------------------------------------------ results
\* The filter of collectVisibleItems: the placed item meets the view widened
\* by the overscan.
IntersectsWindow(placed, view) ==
  LET windowLeft == view.x - horizontalOverscan
      windowRight == view.x + view.width + horizontalOverscan
      windowTop == view.y - verticalOverscan
      windowBottom == view.y + view.height + verticalOverscan
      placedX == getColumnX(placed.columnIndex)
      itemRight == placedX + Cfg.columnWidth
      itemBottom == placed.y + placed.height
  IN /\ itemRight >= windowLeft /\ placedX <= windowRight
     /\ itemBottom >= windowTop /\ placed.y <= windowBottom

\* The items of all columns, by uid.
PlacedByUid(uid) ==
  CHOOSE it \in UNION {{columns[c][i] : i \in 1..Len(columns[c])} : c \in DOMAIN columns} :
    it.uid = uid

collectVisibleItems(view) ==
  SelectSeq(placedImages, LAMBDA uid : IntersectsWindow(PlacedByUid(uid), view))

\* What getItems(view) resolves to: the placedImages array itself
\* (collectVisibleItems is not called).
getItemsResult(view) == placedImages

\* ------------------------------------------------------------------ debug snapshots
MaxDebugCalls == 1
MaxScribbles == 1

\* The engine's own item object handed out.
SameObject(item) == [object |-> "engine", uid |-> item.uid]

\* ({ ...item }): a new object with the fields of item.
CopyOf(item) == [object |-> "copy", uid |-> item.uid]

\* The ColumnSnapshot array; items is a new array of new objects.
getDebugColumns ==
  [c \in DOMAIN columns |->
     [columnIndex |-> c,
      items |-> [i \in 1..Len(columns[c]) |-> CopyOf(columns[c][i])]]]

getDebugPlacedImages ==
  [i \in 1..Len(placedImages) |-> CopyOf(PlacedByUid(placedImages[i]))]

DIdle ==
  /\ debugHeld = {}
  /\ scribbled = {}

\* A caller takes both snapshots and keeps the objects.
TakeDebugSnapshots ==
  /\ placedImages # << >>
  /\ debugHeld' = debugHeld
       \cup UNION {{getDebugColumns[c].items[i] : i \in 1..Len(columns[c])} :
                    c \in DOMAIN columns}
       \cup {getDebugPlacedImages[i] : i \in 1..Len(placedImages)}
  /\ debugHeld' # debugHeld
  /\ UNCHANGED <<mvars, scribbled>>

\* The caller writes to a returned object (item.y += 1): the write lands in
\* the engine's item exactly when the object is the engine's.
WriteToHeld(h) ==
  /\ h \in debugHeld
  /\ h.uid \notin scribbled
  /\ Cardinality(scribbled) < MaxScribbles
  /\ scribbled' = scribbled \cup {h.uid}
  /\ columns' = IF h.object = "engine"
                THEN [c \in DOMAIN columns |->
                        [i \in 1..Len(columns[c]) |->
                           IF columns[c][i].uid = h.uid
                           THEN [columns[c][i] EXCEPT !.y = @ + 1]
                           ELSE columns[c][i]]]
                ELSE columns
  /\ UNCHANGED <<placedImages, columnBounds, nextUid, initializationPromise,
                 initTask, pendingUpdate, units, calls, pool, genCalls,
                 rejectCount, debugHeld>>

\* One awaited getItems call, for the runs with a caller of the getters.
DebugGetItems(view) ==
  /\ Len(calls) < MaxDebugCalls
  /\ Quiet
  /\ GetItemsCall(view)

MDebugNext ==
  /\ \/ /\ \/ \E view \in SeqViews : DebugGetItems(view)
           \/ \E i \in 1..Len(calls) : ScheduleBorderUpdates(i)
           \/ \E u \in 1..Len(units) : StartBorder(u)
           \/ InitGeneratorResolves
           \/ InitGeneratorRejects
           \/ \E u \in 1..Len(units) : BorderGeneratorResolves(u)
           \/ \E u \in 1..Len(units) : BorderGeneratorRejects(u)
        /\ UNCHANGED dvars
     \/ TakeDebugSnapshots
     \/ \E h \in debugHeld : WriteToHeld(h)
  /\ UNCHANGED svars
  /\ UNCHANGED avars
  /\ UNCHANGED cvars
  /\ UNCHANGED lvars
  /\ UNCHANGED hvars
  /\ UNCHANGED gvars
  /\ UNCHANGED wvars
  /\ UNCHANGED uvars
  /\ UNCHANGED pvars

\* ------------------------------------------------------------------ mapping
\* 64-bit unsigned values (BigInt masked with BIGINT_MASK_64) are tuples of
\* eight bytes, least significant first; negative BigInts are kept in two's
\* complement, whose low 64 bits are what normalizeKey keeps.
PRIME_X == 1000003
PRIME_Y == 1000033
PRIME_SEED == 1928341
GLOBAL_SEED == 128181
JUMP_MULTIPLIER == <<253, 176, 176, 135, 230, 46, 187, 39>>

RECURSIVE ToBytes(_, _)
ToBytes(n, count) ==
  IF count = 0 THEN <<>> ELSE <<n % 256>> \o ToBytes(n \div 256, count - 1)

RECURSIVE AddFrom(_, _, _, _)
AddFrom(a, b, i, carry) ==
  IF i > 8 THEN <<>>
  ELSE LET t == a[i] + b[i] + carry
       IN <<t % 256>> \o AddFrom(a, b, i + 1, t \div 256)

Add64(a, b) == AddFrom(a, b, 1, 0)

\* a * b mod 2^64, byte by byte.
RECURSIVE Conv(_, _, _, _)
Conv(a, b, k, i) == IF i > k THEN 0 ELSE a[i] * b[k - i + 1] + Conv(a, b, k, i + 1)

RECURSIVE MulFrom(_, _, _, _)
MulFrom(a, b, k, carry) ==
  IF k > 8 THEN <<>>
  ELSE LET t == Conv(a, b, k, 1) + carry
       IN <<t % 256>> \o MulFrom(a, b, k + 1, t \div 256)

Mul64(a, b) == MulFrom(a, b, 1, 0)

RECURSIVE XorBits(_, _, _)
XorBits(x, y, bits) ==
  IF bits = 0 THEN 0
  ELSE ((x + y) % 2) + 2 * XorBits(x \div 2, y \div 2, bits - 1)

Xor64(a, b) == [i \in 1..8 |-> XorBits(a[i], b[i], 8)]

\* BigInt(n), low 64 bits.
BigInt(n) ==
  IF n >= 0 THEN ToBytes(n, 8)
  ELSE Add64([i \in 1..8 |-> 255 - ToBytes(-n, 8)[i]], ToBytes(1, 8))

\* normalizeKey: the low 64 bits.
normalizeKey(value) == [i \in 1..8 |-> value[i]]

coordinateKey(col, row, seed) ==
  LET colPart == Mul64(BigInt(col), BigInt(PRIME_X))
      rowPart == Mul64(BigInt(row), BigInt(PRIME_Y))
      seedPart == Mul64(BigInt(seed), BigInt(PRIME_SEED))
  IN normalizeKey(Xor64(Xor64(colPart, rowPart), seedPart))

\* Number(current >> 33n): the top 31 bits.
KeyShift(current) ==
  (current[5] \div 2) + current[6] * 128 + current[7] * 32768 + current[8] * 8388608

\* floor(c * 2^31 / m) for 0 < c < m, without leaving 32 bits.
Reach(c, m) == 2 * c * (1073741824 \div m) + (2 * c * (1073741824 % m)) \div m

\* Math.floor((b + 1) * (2147483648 / (keyShift + 1))) >= m, with c = b + 1.
\* The double arithmetic of the source gives the exact quotient's floor for
\* the bucket counts of this model.
JumpAtLeast(c, keyShift, m) == m <= c \/ keyShift < Reach(c, m)

\* A jump whose length depends on the bucket count.
JumpByBuckets(b, keyShift, buckets) == Min2(buckets, b + 1 + (keyShift % buckets))

\* The next j of the loop, or buckets when it is at least buckets (the loop
\* only compares it with buckets then).
NextJump(b, keyShift, buckets) ==
  LET reached == {m \in 0..buckets : JumpAtLeast(b + 1, keyShift, m)}
  IN CHOOSE m \in reached : \A n \in reached : n <= m

RECURSIVE JumpLoop(_, _, _, _)
JumpLoop(b, j, current, buckets) ==
  IF j < buckets
  THEN LET next == normalizeKey(Add64(Mul64(current, JUMP_MULTIPLIER), ToBytes(1, 8)))
       IN JumpLoop(j, NextJump(j, KeyShift(next), buckets), next, buckets)
  ELSE b

\* The outcome of a call that throws.
Thrown == -2

jumpConsistentHash(key, buckets) ==
  IF buckets <= 0 THEN Thrown ELSE JumpLoop(-1, 0, normalizeKey(key), buckets)

\* stableArtworkIndex without its test of artworkCount.
HashOfAnyCount(col, row, count, seed) ==
  jumpConsistentHash(coordinateKey(col, row, seed), count)

stableArtworkIndex(col, row, count, seed) ==
  IF count <= 0 THEN -1 ELSE jumpConsistentHash(coordinateKey(col, row, seed), count)

\* The inputs of the mapping: coordinates around the origin, the default
\* seed and two others, artworkCount from below zero up to MaxBuckets.
MaxCoordinate == 2
MaxBuckets == 4

Counts == (-1)..MaxBuckets

MappedCells == [col : (-MaxCoordinate)..MaxCoordinate, row : (-1)..1,
                seed : {GLOBAL_SEED, 0, -7}]

HStart(c) ==
  /\ cell = c
  /\ mapped = [count \in Counts |-> Null]

HInit == \E c \in MappedCells : HStart(c)

HIdle == HStart([col |-> 0, row |-> 0, seed |-> GLOBAL_SEED])

\* One call of stableArtworkIndex(col, row, artworkCount, seed).
MapCell(count) ==
  /\ mapped[count] = Null
  /\ mapped' = [mapped EXCEPT
                  ![count] = Some(stableArtworkIndex(cell.col, cell.row, count, cell.seed))]
  /\ UNCHANGED cell

HNext ==
  /\ \E count \in Counts : MapCell(count)
  /\ UNCHANGED mvars
  /\ UNCHANGED svars
  /\ UNCHANGED avars
  /\ UNCHANGED cvars
  /\ UNCHANGED lvars
  /\ UNCHANGED dvars
  /\ UNCHANGED gvars
  /\ UNCHANGED wvars
  /\ UNCHANGED uvars
  /\ UNCHANGED pvars

\* ------------------------------------------------------------------ sector store
\* The grid is scaled down: a sector is SECTOR_SIZE x SECTOR_SIZE tiles, the
\* handlers prefetch PREFETCH_SECTORS sectors around the visible range, and the
\* store is built with a cap of at most MAX_SECTORS (the default cap).
SECTOR_SIZE == 2
PREFETCH_SECTORS == 1
MAX_SECTORS == 2
ORIGIN_INDEX == 4
MaxArtworks == 3

\* The caps a SectorStore is constructed with; the constructor accepts any
\* number.
Caps == (-1)..MAX_SECTORS

\* What react-window reports and renders.
VisibleColumns == {ORIGIN_INDEX - 3, ORIGIN_INDEX + 2}
VisibleRows == {ORIGIN_INDEX}
CellColumns == {ORIGIN_INDEX - 3, ORIGIN_INDEX, ORIGIN_INDEX + 2}
CellRows == {ORIGIN_INDEX}

sectorKey(sx, sy) == <<sx, sy>>

createEmptyTile == [state |-> "empty", artworkIndex |-> Null]

createTileArray == [i \in 1..(SECTOR_SIZE * SECTOR_SIZE) |-> createEmptyTile]

worldToSectorCoordinate(value) == value \div SECTOR_SIZE

\* The % of JavaScript: the sign of the dividend.
JsRemainder(a, b) == IF a >= 0 THEN a % b ELSE -((-a) % b)

worldToLocalIndex(value) ==
  LET mod == JsRemainder(value, SECTOR_SIZE)
  IN IF mod < 0 THEN mod + SECTOR_SIZE ELSE mod

tileIndex(localCol, localRow) == localRow * SECTOR_SIZE + localCol

\* The store as a value, for the methods below.
Store == [sectors |-> sectors, order |-> order, bounds |-> bounds,
          touchLog |-> touchLog, createLog |-> createLog]

Without(keys, key) == SelectSeq(keys, LAMBDA k : k # key)

\* Map.set of a key that is present keeps its position.
KeepPosition(keys, key) ==
  IF \E i \in 1..Len(keys) : keys[i] = key THEN keys ELSE Append(keys, key)

\* order.delete(key) when present, then order.set(key, true).
MoveToEnd(keys, key) == Append(Without(keys, key), key)

\* A touch that leaves the order alone.
TouchNothing(S, key) == S

touch(S, key) ==
  IF key \notin DOMAIN S.sectors THEN S
  ELSE [S EXCEPT !.order = MoveToEnd(S.order, key),
                 !.touchLog = Append(Without(S.touchLog, key), key)]

updateBoundsForSector(b, sector) ==
  IF b = Null
  THEN Some([minSx |-> sector.sx, maxSx |-> sector.sx,
             minSy |-> sector.sy, maxSy |-> sector.sy])
  ELSE Some([minSx |-> Min2(b[1].minSx, sector.sx), maxSx |-> Max2(b[1].maxSx, sector.sx),
             minSy |-> Min2(b[1].minSy, sector.sy), maxSy |-> Max2(b[1].maxSy, sector.sy)])

SetMin(values) == CHOOSE v \in values : \A w \in values : v <= w
SetMax(values) == CHOOSE v \in values : \A w \in values : v >= w

recalculateBounds(secs) ==
  IF DOMAIN secs = {} THEN Null
  ELSE LET xs == {secs[k].sx : k \in DOMAIN secs}
           ys == {secs[k].sy : k \in DOMAIN secs}
       IN Some([minSx |-> SetMin(xs), maxSx |-> SetMax(xs),
                minSy |-> SetMin(ys), maxSy |-> SetMax(ys)])

\* getOrCreate returns {sector, isNew}; here the store after the call, the
\* key of the sector and isNew.
getOrCreate(S, sx, sy) ==
  LET key == sectorKey(sx, sy) IN
  IF key \in DOMAIN S.sectors
  THEN [S |-> touch(S, key), key |-> key, isNew |-> FALSE]
  ELSE LET sector == [key |-> key, sx |-> sx, sy |-> sy, tiles |-> createTileArray]
           added == [S EXCEPT !.sectors = (key :> sector) @@ S.sectors,
                              !.createLog = Append(S.createLog, key)]
           touched == touch(added, key)
       IN [S |-> [touched EXCEPT !.bounds = updateBoundsForSector(S.bounds, sector)],
           key |-> key, isNew |-> TRUE]

\* The while loop of evictIfNeeded. removals (history): for each removed key,
\* whether it was the least recently touched and whether it was the first
\* created of the sectors resident at that moment.
RECURSIVE EvictLoop(_, _, _)
EvictLoop(S, max, removals) ==
  IF Cardinality(DOMAIN S.sectors) > max /\ Len(S.order) > 0
  THEN LET oldestKey == Head(S.order)
           removal == [key |-> oldestKey,
                       leastRecent |-> oldestKey = Head(S.touchLog),
                       firstCreated |-> oldestKey = Head(S.createLog)]
           rest == [k \in DOMAIN S.sectors \ {oldestKey} |-> S.sectors[k]]
       IN EvictLoop([S EXCEPT !.order = Tail(S.order), !.sectors = rest,
                              !.touchLog = Without(S.touchLog, oldestKey),
                              !.createLog = Without(S.createLog, oldestKey)],
                    max, Append(removals, removal))
  ELSE [S |-> S, removals |-> removals]

\* evictIfNeeded that leaves the bounds as they were.
EvictKeepingBounds(S, max) == EvictLoop(S, max, <<>>)

evictIfNeeded(S, max) ==
  LET r == EvictLoop(S, max, <<>>)
  IN [S |-> IF Len(r.removals) > 0
            THEN [r.S EXCEPT !.bounds = recalculateBounds(r.S.sectors)]
            ELSE r.S,
      removals |-> r.removals]

\* ------------------------------------------------------------------ InfiniteArtGrid
\* The world coordinates the handlers can reach.
WorldCoordinates(indexes) ==
  LET reach == (PREFETCH_SECTORS + 1) * SECTOR_SIZE
  IN (SetMin(indexes) - ORIGIN_INDEX - reach)..(SetMax(indexes) - ORIGIN_INDEX + reach)

\* stableArtworkIndex(worldCol, worldRow, count) with the default seed, for
\* every tile and artwork count of the model.
ArtworkIndexOf ==
  [col \in WorldCoordinates(VisibleColumns \cup CellColumns),
   row \in WorldCoordinates(VisibleRows \cup CellRows),
   count \in 0..MaxArtworks |-> stableArtworkIndex(col, row, count, GLOBAL_SEED)]

\* populateSector leaves a tile that has its artwork alone.
NeverAssigned(tile) == FALSE
tileAssigned(tile) == tile.state = "ready" /\ tile.artworkIndex # Null

populateSector(sector, count) ==
  IF count <= 0 THEN sector
  ELSE LET baseCol == sector.sx * SECTOR_SIZE
           baseRow == sector.sy * SECTOR_SIZE
           populated(localCol, localRow) ==
             LET tile == sector.tiles[tileIndex(localCol, localRow) + 1]
                 artworkIndex == ArtworkIndexOf[baseCol + localCol, baseRow + localRow, count]
             IN IF tileAssigned(tile) THEN tile
                ELSE IF artworkIndex >= 0
                THEN [state |-> "ready", artworkIndex |-> Some(artworkIndex)]
                ELSE [state |-> "empty", artworkIndex |-> Null]
       IN [sector EXCEPT !.tiles =
             [i \in 1..(SECTOR_SIZE * SECTOR_SIZE) |->
                populated((i - 1) % SECTOR_SIZE, (i - 1) \div SECTOR_SIZE)]]

\* The loops of handleItemsRendered over the padded sector range, row by row.
RECURSIVE RenderSectors(_, _, _, _, _, _, _)
RenderSectors(S, sx, sy, sectorStartX, sectorEndX, sectorEndY, count) ==
  IF sy > sectorEndY THEN S
  ELSE IF sx > sectorEndX
  THEN RenderSectors(S, sectorStartX, sy + 1, sectorStartX, sectorEndX, sectorEndY, count)
  ELSE LET r == getOrCreate(S, sx, sy)
           sector == r.S.sectors[r.key]
           someEmpty == \E i \in DOMAIN sector.tiles : sector.tiles[i].state = "empty"
           after == IF count > 0 /\ (r.isNew \/ someEmpty)
                    THEN [r.S EXCEPT !.sectors[r.key] = populateSector(sector, count)]
                    ELSE r.S
       IN RenderSectors(after, sx + 1, sy, sectorStartX, sectorEndX, sectorEndY, count)

SetStore(S) ==
  /\ sectors' = S.sectors
  /\ order' = S.order
  /\ bounds' = S.bounds
  /\ touchLog' = S.touchLog
  /\ createLog' = S.createLog

Handler(name, key, tile) == [name |-> name, key |-> key, tile |-> tile]

\* The world coordinates whose cells are rendered: their first artworkIndex
\* is remembered (history).
TrackedTiles == {<<c - ORIGIN_INDEX, r - ORIGIN_INDEX>> : c \in CellColumns, r \in CellRows}

\* The tile at a world coordinate, Null when its sector is not resident.
TileAt(secs, worldCol, worldRow) ==
  LET key == sectorKey(worldToSectorCoordinate(worldCol), worldToSectorCoordinate(worldRow))
  IN IF key \in DOMAIN secs
     THEN Some(secs[key].tiles[tileIndex(worldToLocalIndex(worldCol),
                                         worldToLocalIndex(worldRow)) + 1])
     ELSE Null

\* firstIndex after a handler left the sectors secs: a tracked coordinate
\* that shows a ready tile for the first time records its artworkIndex.
Recorded(first, secs) ==
  [t \in TrackedTiles |->
     LET tile == TileAt(secs, t[1], t[2])
     IN IF first[t] = Null /\ tile # Null /\ tile[1].state = "ready"
        THEN tile[1].artworkIndex
        ELSE first[t]]

\* new SectorStore(maxSectors); the grid has no artworks yet.
SInit ==
  /\ sectors = << >>
  /\ order = << >>
  /\ bounds = Null
  /\ maxSectors \in Caps
  /\ artworkCount = 0
  /\ touchLog = << >>
  /\ createLog = << >>
  /\ evicted = << >>
  /\ lastOp = Handler("constructor", sectorKey(0, 0), 0)
  /\ firstIndex = [t \in TrackedTiles |-> Null]

\* onItemsRendered: every sector of the padded range is fetched or created and
\* populated, then the store evicts. What follows in the handler
\* (scheduleNextPage) changes the page loader only, whose pages arrive through
\* ArtworksLoaded.
handleItemsRendered(visibleColumnStart, visibleColumnStop, visibleRowStart, visibleRowStop) ==
  LET worldColStart == visibleColumnStart - ORIGIN_INDEX
      worldColEnd == visibleColumnStop - ORIGIN_INDEX
      worldRowStart == visibleRowStart - ORIGIN_INDEX
      worldRowEnd == visibleRowStop - ORIGIN_INDEX
      sectorStartX == worldToSectorCoordinate(worldColStart - PREFETCH_SECTORS * SECTOR_SIZE)
      sectorEndX == worldToSectorCoordinate(worldColEnd + PREFETCH_SECTORS * SECTOR_SIZE)
      sectorStartY == worldToSectorCoordinate(worldRowStart - PREFETCH_SECTORS * SECTOR_SIZE)
      sectorEndY == worldToSectorCoordinate(worldRowEnd + PREFETCH_SECTORS * SECTOR_SIZE)
      rendered == RenderSectors(Store, sectorStartX, sectorStartY, sectorStartX,
                                sectorEndX, sectorEndY, artworkCount)
      r == evictIfNeeded(rendered, maxSectors)
  IN /\ SetStore(r.S)
     /\ evicted' = r.removals
     /\ lastOp' = Handler("handleItemsRendered", sectorKey(0, 0), 0)
     /\ UNCHANGED <<maxSectors, artworkCount>>

\* The render of one cell.
Cell(columnIndex, rowIndex) ==
  LET worldCol == columnIndex - ORIGIN_INDEX
      worldRow == rowIndex - ORIGIN_INDEX
      sx == worldToSectorCoordinate(worldCol)
      sy == worldToSectorCoordinate(worldRow)
      r == getOrCreate(Store, sx, sy)
      idx == tileIndex(worldToLocalIndex(worldCol), worldToLocalIndex(worldRow)) + 1
      tile == r.S.sectors[r.key].tiles[idx]
      artworkIndex == ArtworkIndexOf[worldCol, worldRow, artworkCount]
      after == IF /\ artworkCount > 0
                  /\ (tile.state = "empty" \/ tile.artworkIndex = Null)
                  /\ artworkIndex >= 0
               THEN [r.S EXCEPT !.sectors[r.key].tiles[idx] =
                       [state |-> "ready", artworkIndex |-> Some(artworkIndex)]]
               ELSE r.S
  IN /\ SetStore(after)
     /\ evicted' = << >>
     /\ lastOp' = Handler("Cell", r.key, idx)
     /\ UNCHANGED <<maxSectors, artworkCount>>

\* A page arrives and setArtworks appends its new artworks; the effect on
\* artworks.length then populates every resident sector.
ArtworksLoaded(count) ==
  /\ count > artworkCount
  /\ count <= MaxArtworks
  /\ artworkCount' = count
  /\ sectors' = [k \in DOMAIN sectors |-> populateSector(sectors[k], count)]
  /\ evicted' = << >>
  /\ lastOp' = Handler("effect", sectorKey(0, 0), 0)
  /\ UNCHANGED <<order, bounds, maxSectors, touchLog, createLog>>

SNext ==
  /\ \/ \E c \in VisibleColumns, r \in VisibleRows : handleItemsRendered(c, c + 1, r, r)
     \/ \E c \in CellColumns, r \in CellRows : Cell(c, r)
     \/ \E count \in 1..MaxArtworks : ArtworksLoaded(count)
  /\ UNCHANGED firstIndex
  /\ UNCHANGED mvars
  /\ UNCHANGED avars
  /\ UNCHANGED cvars
  /\ UNCHANGED lvars
  /\ UNCHANGED hvars
  /\ UNCHANGED dvars
  /\ UNCHANGED gvars
  /\ UNCHANGED wvars
  /\ UNCHANGED uvars
  /\ UNCHANGED pvars

\* The same handlers, with the first artworkIndex of every tracked coordinate
\* remembered.
SHistoryNext ==
  /\ \/ \E c \in VisibleColumns, r \in VisibleRows : handleItemsRendered(c, c + 1, r, r)
     \/ \E c \in CellColumns, r \in CellRows : Cell(c, r)
     \/ \E count \in 1..MaxArtworks : ArtworksLoaded(count)
  /\ firstIndex' = Recorded(firstIndex, sectors')
  /\ UNCHANGED mvars
  /\ UNCHANGED avars
  /\ UNCHANGED cvars
  /\ UNCHANGED lvars
  /\ UNCHANGED hvars
  /\ UNCHANGED dvars
  /\ UNCHANGED gvars
  /\ UNCHANGED wvars
  /\ UNCHANGED uvars
  /\ UNCHANGED pvars

\* ------------------------------------------------------------------ SectorStore, call by call
\* The sector coordinates given to getOrCreate.
StoreCoordinates == {<<-1, 0>>, <<0, 0>>, <<1, 0>>, <<0, 1>>}

StoreGetOrCreate(sx, sy) ==
  LET r == getOrCreate(Store, sx, sy)
  IN /\ SetStore(r.S)
     /\ evicted' = << >>
     /\ lastOp' = Handler("getOrCreate", r.key, 0)
     /\ UNCHANGED <<maxSectors, artworkCount, firstIndex>>

StoreEvictIfNeeded ==
  LET r == evictIfNeeded(Store, maxSectors)
  IN /\ SetStore(r.S)
     /\ evicted' = r.removals
     /\ lastOp' = Handler("evictIfNeeded", sectorKey(0, 0), 0)
     /\ UNCHANGED <<maxSectors, artworkCount, firstIndex>>

StoreNext ==
  /\ \/ \E c \in StoreCoordinates : StoreGetOrCreate(c[1], c[2])
     \/ StoreEvictIfNeeded
  /\ UNCHANGED mvars
  /\ UNCHANGED avars
  /\ UNCHANGED cvars
  /\ UNCHANGED lvars
  /\ UNCHANGED hvars
  /\ UNCHANGED dvars
  /\ UNCHANGED gvars
  /\ UNCHANGED wvars
  /\ UNCHANGED uvars
  /\ UNCHANGED pvars

\* ------------------------------------------------------------------ createAICImageGenerator
MaxId == 3
MaxPages == 2
MaxAwaiting == 2
batchSize == 2

\* Artworks of the API: image_id is TRUE for a string, FALSE for null.
Artworks == [id : 1..MaxId, image_id : BOOLEAN]

\* payload.data: up to batchSize artworks, in any order, repeats included.
PageContents == UNION {[1..n -> Artworks] : n \in 0..batchSize}

\* pagination.total_pages of a response: Null when missing or not a positive
\* finite number.
PageCounts == {Null} \cup {Some(p) : p \in 1..MaxPages}

\* options.seed as a fraction; options.refillThreshold.
Seeds == {[num |-> 0, den |-> 4], [num |-> 3, den |-> 4], [num |-> -6, den |-> 4]}
RefillThresholds == {0, 1}

Abs(n) == IF n >= 0 THEN n ELSE -n

\* Math.floor(Math.abs(seed % 1) * pages) + 1
SeedPage(seed, pages) ==
  (Abs(JsRemainder(seed.num, seed.den)) * pages) \div seed.den + 1

updateNextPage(currentPage, total) ==
  IF total # Null /\ total[1] > 0
  THEN Some(IF currentPage >= total[1] THEN 1 ELSE currentPage + 1)
  ELSE Some(currentPage + 1)

\* The fetchNextBatch coroutine at one of its awaits, or settled with the
\* finally callback still to run.
Task(phase, page, arts) == [phase |-> phase, page |-> page, arts |-> arts]

\* fetchNextBatch up to its first pending fetch: ensurePaginationInfo returns
\* at once when both values are known, and the page request goes out.
fetchNextBatch ==
  IF totalPages # Null /\ nextPage # Null
  THEN Task("page", nextPage[1], << >>)
  ELSE Task("meta", 0, << >>)

\* ensureBatch that never looks at the marker.
AlwaysStarts == TRUE

\* if (!inflight)
StartsBatch == inflight = Null

ensureBatch == IF StartsBatch THEN fetchNextBatch ELSE inflight

\* fetchHistory after a call of ensureBatch: running counts the
\* fetchNextBatch coroutines that were started and have not settled.
BatchCounted ==
  [fetchHistory EXCEPT !.running = IF StartsBatch THEN @ + 1 ELSE @]

\* The check of the loop that fills the buffer.
AlwaysNew(img, seen) == TRUE

IsNew(img, seen) == img.id \notin seen

\* artworks.filter((art) => art.image_id && !seenIds.has(art.id))
Filtered(data, seen) == SelectSeq(data, LAMBDA art : art.image_id /\ art.id \notin seen)

\* for (const img of newImages): acc is the buffer, the seen ids and whether
\* an image was refused.
RECURSIVE PushNew(_, _, _)
PushNew(newImages, i, acc) ==
  IF i > Len(newImages) THEN acc
  ELSE LET img == newImages[i] IN
       IF img # Null /\ IsNew(img[1], acc.seen)
       THEN PushNew(newImages, i + 1,
                    [acc EXCEPT !.seen = @ \cup {img[1].id},
                                !.buffer = Append(@, img[1])])
       ELSE PushNew(newImages, i + 1,
                    [acc EXCEPT !.refused = @ \/ img # Null])

\* The generator as createAICImageGenerator returns it.
AStart(seed, refillThreshold) ==
  /\ options = [seed |-> seed, refillThreshold |-> refillThreshold]
  /\ buffer = << >>
  /\ nextPage = Null
  /\ totalPages = Null
  /\ inflight = Null
  /\ seenIds = {}
  /\ awaiting = 0
  /\ resumed = 0
  /\ returned = << >>
  /\ fetchHistory = [pages |-> {}, again |-> FALSE, refused |-> FALSE, running |-> 0,
                     cleared |-> {}]

AInit == \E seed \in Seeds, refillThreshold \in RefillThresholds :
           AStart(seed, refillThreshold)

\* generator, from buffer.shift() on, with a buffer that holds an image.
Deliver ==
  /\ buffer # << >>
  /\ buffer' = Tail(buffer)
  /\ returned' = Append(returned, Head(buffer))
  /\ inflight' = IF Len(Tail(buffer)) <= options.refillThreshold
                 THEN ensureBatch ELSE inflight
  /\ fetchHistory' = IF Len(Tail(buffer)) <= options.refillThreshold
                     THEN BatchCounted ELSE fetchHistory

\* generator(): with an empty buffer it awaits ensureBatch().
generator ==
  /\ \/ /\ buffer = << >>
        /\ awaiting + resumed < MaxAwaiting
        /\ inflight' = ensureBatch
        /\ fetchHistory' = BatchCounted
        /\ awaiting' = awaiting + 1
        /\ UNCHANGED <<buffer, returned>>
     \/ /\ Deliver
        /\ UNCHANGED awaiting
  /\ UNCHANGED <<options, nextPage, totalPages, seenIds, resumed>>

\* generator() after its await: an empty buffer makes it throw.
GeneratorResumes ==
  /\ resumed > 0
  /\ resumed' = resumed - 1
  /\ \/ /\ buffer = << >>
        /\ UNCHANGED <<buffer, returned, inflight, fetchHistory>>
     \/ Deliver
  /\ UNCHANGED <<options, nextPage, totalPages, seenIds, awaiting>>

\* ensurePaginationInfo after its fetch: pages is Null for a failed request, a
\* payload without a usable page count, or an exception. fetchNextBatch then
\* requests the page.
ensurePaginationInfo(pages) ==
  /\ inflight # Null
  /\ inflight.phase = "meta"
  /\ totalPages' = pages
  /\ nextPage' = IF pages # Null THEN Some(SeedPage(options.seed, pages[1]))
                 ELSE Some(1)
  /\ inflight' = Task("page", nextPage'[1], << >>)
  /\ UNCHANGED <<options, buffer, seenIds, awaiting, resumed, returned,
                 fetchHistory>>

\* fetchNextBatch after the page request failed.
PageRequestFails ==
  /\ inflight # Null
  /\ inflight.phase = "page"
  /\ inflight' = Task("rejected", inflight.page, << >>)
  /\ fetchHistory' = [fetchHistory EXCEPT
                        !.pages = @ \cup {inflight.page},
                        !.again = @ \/ inflight.page \in fetchHistory.pages]
  /\ UNCHANGED <<options, buffer, nextPage, totalPages, seenIds, awaiting,
                 resumed, returned>>

\* fetchNextBatch after the page arrived, up to Promise.all.
PageArrives(pages, data) ==
  /\ inflight # Null
  /\ inflight.phase = "page"
  /\ totalPages' = IF pages # Null THEN pages ELSE totalPages
  /\ nextPage' = updateNextPage(inflight.page, totalPages')
  /\ inflight' = Task("build", inflight.page, Filtered(data, seenIds))
  /\ fetchHistory' = [fetchHistory EXCEPT
                        !.pages = @ \cup {inflight.page},
                        !.again = @ \/ inflight.page \in fetchHistory.pages,
                        !.refused = @ \/ \E i \in 1..Len(data) :
                                           data[i].image_id /\ data[i].id \in seenIds]
  /\ UNCHANGED <<options, buffer, seenIds, awaiting, resumed, returned>>

\* fetchNextBatch after Promise.all: buildMasonryImage gave an image for the
\* artworks in built and null for the others.
ImagesBuilt(built) ==
  /\ inflight # Null
  /\ inflight.phase = "build"
  /\ LET newImages == [i \in 1..Len(inflight.arts) |->
                         IF i \in built THEN Some([id |-> inflight.arts[i].id])
                         ELSE Null]
         acc == PushNew(newImages, 1, [buffer |-> buffer, seen |-> seenIds,
                                       refused |-> fetchHistory.refused])
     IN /\ buffer' = acc.buffer
        /\ seenIds' = acc.seen
        /\ fetchHistory' = [fetchHistory EXCEPT !.refused = acc.refused]
  /\ inflight' = Task("resolved", inflight.page, << >>)
  /\ UNCHANGED <<options, nextPage, totalPages, awaiting, resumed, returned>>

\* The finally callback of ensureBatch; the calls that awaited continue after
\* a batch and throw after a failure.
BatchSettles ==
  /\ inflight # Null
  /\ inflight.phase \in {"resolved", "rejected"}
  /\ inflight' = Null
  /\ awaiting' = 0
  /\ resumed' = IF inflight.phase = "resolved" THEN resumed + awaiting ELSE resumed
  /\ fetchHistory' = [fetchHistory EXCEPT !.running = @ - 1,
                                          !.cleared = @ \cup {inflight.phase}]
  /\ UNCHANGED <<options, buffer, nextPage, totalPages, seenIds, returned>>

ANext ==
  /\ \/ generator
     \/ GeneratorResumes
     \/ \E pages \in PageCounts : ensurePaginationInfo(pages)
     \/ PageRequestFails
     \/ \E pages \in PageCounts, data \in PageContents : PageArrives(pages, data)
     \/ \E built \in SUBSET (1..batchSize) : ImagesBuilt(built)
     \/ BatchSettles
  /\ UNCHANGED mvars
  /\ UNCHANGED svars
  /\ UNCHANGED cvars
  /\ UNCHANGED lvars
  /\ UNCHANGED hvars
  /\ UNCHANGED dvars
  /\ UNCHANGED gvars
  /\ UNCHANGED wvars
  /\ UNCHANGED uvars
  /\ UNCHANGED pvars

\* ------------------------------------------------------------------ chunks
MaxChunk == 3

ChunkRange == (-MaxChunk)..MaxChunk

\* encodeSignedInt without the offset of the negative values.
Doubled(value) == IF value >= 0 THEN value * 2 ELSE -value * 2

encodeSignedInt(value) == IF value >= 0 THEN value * 2 ELSE -value * 2 - 1

encodeChunkIndex(x, y) ==
  LET ax == encodeSignedInt(x)
      ay == encodeSignedInt(y)
      sum == ax + ay
  IN (sum * (sum + 1)) \div 2 + ay

\* The page without the step to 1-based paging.
ZeroBasedPage(index, total) ==
  LET safeTotal == Max2(1, total) IN JsRemainder(index, safeTotal)

resolvePageNumber(index, total) ==
  LET safeTotal == Max2(1, total)
      bounded == JsRemainder(JsRemainder(index, safeTotal) + safeTotal, safeTotal)
  IN bounded + 1

\* totalPages values given to resolvePageNumber.
MaxTotalPages == 5

TotalPagesValues == {0, 1, 2, 3, MaxTotalPages}

CStart(a, b) ==
  /\ chunks = <<a, b>>
  /\ chunkIndex = <<Null, Null>>
  /\ chunkPage = <<Null, Null>>

CInit == \E a, b \in [x : ChunkRange, y : ChunkRange] : CStart(a, b)

\* One call of encodeChunkIndex.
EncodeChunk(i) ==
  /\ chunkIndex[i] = Null
  /\ chunkIndex' = [chunkIndex EXCEPT ![i] = Some(encodeChunkIndex(chunks[i].x, chunks[i].y))]
  /\ UNCHANGED <<chunks, chunkPage>>

\* One call of resolvePageNumber with the index of a chunk, as fetchChunk
\* makes it.
ResolvePage(i, total) ==
  /\ chunkIndex[i] # Null
  /\ chunkPage[i] = Null
  /\ chunkPage' = [chunkPage EXCEPT
                     ![i] = Some([totalPages |-> total,
                                  page |-> resolvePageNumber(chunkIndex[i][1], total)])]
  /\ UNCHANGED <<chunks, chunkIndex>>

CNext ==
  /\ \/ \E i \in 1..2 : EncodeChunk(i)
     \/ \E i \in 1..2, total \in TotalPagesValues : ResolvePage(i, total)
  /\ UNCHANGED mvars
  /\ UNCHANGED svars
  /\ UNCHANGED avars
  /\ UNCHANGED lvars
  /\ UNCHANGED hvars
  /\ UNCHANGED dvars
  /\ UNCHANGED gvars
  /\ UNCHANGED wvars
  /\ UNCHANGED uvars
  /\ UNCHANGED pvars

\* ------------------------------------------------------------------ chunk loader (App)
DEFAULT_TOTAL_PAGES == 8000

chunkKey(coordinates) == <<coordinates.x, coordinates.y>>

\* Chunk coordinates the viewport reaches, and the target lists that
\* chunkBoundsFromWorld hands to requestChunksForBounds.
LoaderChunks == <<[x |-> 0, y |-> 0], [x |-> 1, y |-> 0], [x |-> -1, y |-> 1]>>

TargetLists == {<<LoaderChunks[2]>>, <<LoaderChunks[1], LoaderChunks[2]>>,
                <<LoaderChunks[2], LoaderChunks[3]>>}

\* totalPages of a response: Null when it is not a finite number.
TotalPagesReplies == {Null, Some(0), Some(1), Some(3)}

\* The refs of App as one value.
Loader == [chunkStore |-> chunkStore, inflightChunks |-> inflightChunks,
           totalPagesRef |-> totalPagesRef, fetches |-> fetches, skips |-> skips]

SetLoader(L) ==
  /\ chunkStore' = L.chunkStore
  /\ inflightChunks' = L.inflightChunks
  /\ totalPagesRef' = L.totalPagesRef
  /\ fetches' = L.fetches
  /\ skips' = L.skips

StatusOf(L, key) == IF key \in DOMAIN L.chunkStore THEN L.chunkStore[key] ELSE "none"

\* The early return of ensureChunkLoaded without the in-flight test.
SkipsReadyOnly(L, key) == StatusOf(L, key) = "ready"

ShouldSkip(L, key) == StatusOf(L, key) = "ready" \/ key \in L.inflightChunks

\* ensureChunkLoaded up to its await: fetchChunk has computed the page from
\* totalPagesRef and waits for fetchArtworksPage. n tells apart the fetches
\* of one key that are in flight together.
ensureChunkLoaded(L, coordinates) ==
  LET key == chunkKey(coordinates)
      index == encodeChunkIndex(coordinates.x, coordinates.y)
  IN IF ShouldSkip(L, key)
     THEN [L EXCEPT !.skips = @ \cup {IF StatusOf(L, key) = "ready"
                                      THEN "ready" ELSE "inflight"}]
     ELSE [L EXCEPT
             !.inflightChunks = @ \cup {key},
             !.fetches = @ \cup
               {[key |-> key, index |-> index, totalPages |-> L.totalPagesRef,
                 page |-> resolvePageNumber(index, L.totalPagesRef),
                 n |-> Cardinality({f \in L.fetches : f.key = key}),
                 st |-> "fetching"]}]

RECURSIVE EnsureEach(_, _, _)
EnsureEach(L, targets, i) ==
  IF i > Len(targets) THEN L
  ELSE EnsureEach(ensureChunkLoaded(L, targets[i]), targets, i + 1)

LInit ==
  /\ chunkStore = << >>
  /\ inflightChunks = {}
  /\ totalPagesRef = DEFAULT_TOTAL_PAGES
  /\ fetches = {}
  /\ skips = {}

\* useEffect: ensureChunkLoaded({ x: 0, y: 0 })
LoadOrigin == SetLoader(ensureChunkLoaded(Loader, LoaderChunks[1]))

requestChunksForBounds(targets) == SetLoader(EnsureEach(Loader, targets, 1))

\* fetchChunk after fetchArtworksPage threw (ok = FALSE) or answered with
\* totalPages = reply.
FetchChunkSettles(f, ok, reply) ==
  /\ f \in fetches
  /\ f.st = "fetching"
  /\ fetches' = (fetches \ {f}) \cup
                  {[f EXCEPT !.st = IF ok THEN "returned" ELSE "threw"]}
  /\ totalPagesRef' = IF ok /\ reply # Null THEN reply[1] ELSE totalPagesRef
  /\ UNCHANGED <<chunkStore, inflightChunks, skips>>

\* ensureChunkLoaded after its await: try or catch, then finally.
ChunkStored(f) ==
  /\ f \in fetches
  /\ f.st # "fetching"
  /\ chunkStore' = [k \in (DOMAIN chunkStore) \cup {f.key} |->
                      IF k = f.key
                      THEN (IF f.st = "returned" THEN "ready" ELSE "error")
                      ELSE chunkStore[k]]
  /\ inflightChunks' = inflightChunks \ {f.key}
  /\ fetches' = fetches \ {f}
  /\ UNCHANGED <<totalPagesRef, skips>>

LNext ==
  /\ \/ LoadOrigin
     \/ \E targets \in TargetLists : requestChunksForBounds(targets)
     \/ \E f \in fetches, ok \in BOOLEAN, reply \in TotalPagesReplies :
          FetchChunkSettles(f, ok, reply)
     \/ \E f \in fetches : ChunkStored(f)
  /\ UNCHANGED mvars
  /\ UNCHANGED svars
  /\ UNCHANGED avars
  /\ UNCHANGED cvars
  /\ UNCHANGED hvars
  /\ UNCHANGED dvars
  /\ UNCHANGED gvars
  /\ UNCHANGED wvars
  /\ UNCHANGED uvars
  /\ UNCHANGED pvars

\* ------------------------------------------------------------------ computeMasonryDisplay
\* One column of computeMasonryDisplay (src/unnamed/part_004): it is seeded
\* from the images of the call, filled towards the viewport and healed.
\* Lengths of this section are counted in units of EPSILON (1e-3 px); the
\* options are columnWidth = Cfg.columnWidth and preloadY = 0.
EPSILON == 1
Px == 1000
MaxHealSteps == 8

SeedItem(id, y, h) == [id |-> id, y |-> y, h |-> h]

\* The images of a call that carry a position in the column, in the order
\* the caller gives them: stacked, one px apart, three px apart, one
\* EPSILON apart, given bottom first, and three stacked items.
SeedLists ==
  { <<>>,
    <<SeedItem(1, 0, 2 * Px), SeedItem(2, 2 * Px, 2 * Px)>>,
    <<SeedItem(1, 0, 2 * Px), SeedItem(2, 3 * Px, 2 * Px)>>,
    <<SeedItem(1, 0, Px), SeedItem(2, 4 * Px, Px)>>,
    <<SeedItem(1, 0, 2 * Px), SeedItem(2, 2 * Px + EPSILON, 2 * Px)>>,
    <<SeedItem(2, 3 * Px, Px), SeedItem(1, 0, 2 * Px)>>,
    <<SeedItem(1, 0, 2 * Px), SeedItem(2, 2 * Px, Px), SeedItem(3, 3 * Px, 2 * Px)>> }

DisplayBounds == {[y |-> 0, height |-> 4 * Px], [y |-> 2 * Px, height |-> 6 * Px]}
DisplayMoves == {[dx |-> 0, dy |-> 0], [dx |-> Px, dy |-> 0],
                 [dx |-> 0, dy |-> Px], [dx |-> 0, dy |-> -Px]}

\* getImage: the natural sizes it returns, in turn; every id is new.
Supplies == {<<Square>>, <<Wide, Square>>}

scaleSize(img, cw) ==
  [w |-> cw * Px, h |-> Px * Max2(1, RoundDiv(cw * img.height, img.width))]

RECURSIVE InsertionPoint(_, _, _, _)
InsertionPoint(items, y, low, high) ==
  IF low > high THEN low
  ELSE LET mid == (low + high) \div 2
       IN IF items[mid].y < y
          THEN InsertionPoint(items, y, mid + 1, high)
          ELSE InsertionPoint(items, y, low, mid - 1)

\* items.splice(at - 1, 0, item)
Splice(items, at, item) ==
  SubSeq(items, 1, at - 1) \o <<item>> \o SubSeq(items, at, Len(items))

insertOrdered(items, item) ==
  IF Len(items) = 0 \/ item.y >= items[Len(items)].y THEN Append(items, item)
  ELSE IF item.y <= items[1].y THEN <<item>> \o items
  ELSE Splice(items, InsertionPoint(items, item.y, 1, Len(items)), item)

RECURSIVE seedColumnsFromImages(_, _)
seedColumnsFromImages(images, items) ==
  IF images = <<>> THEN items
  ELSE IF \E i \in 1..Len(items) : items[i].id = Head(images).id
       THEN seedColumnsFromImages(Tail(images), items)
       ELSE seedColumnsFromImages(Tail(images), insertOrdered(items, Head(images)))

updateColumnCursors(d) ==
  [d EXCEPT !.cursorTop = IF Len(d.items) > 0 THEN d.items[1].y ELSE 0,
            !.cursorBottom = IF Len(d.items) > 0
                             THEN d.items[Len(d.items)].y + d.items[Len(d.items)].h
                             ELSE 0]

\* acquireImage(): the next image of the supply under a generated id, scaled.
acquireImage(d) ==
  [id |-> -(d.acquired + 1),
   h |-> scaleSize(d.supply[(d.acquired % Len(d.supply)) + 1], Cfg.columnWidth).h]

placeAbove(d) ==
  LET img == acquireImage(d)
      y == IF Len(d.items) > 0 THEN d.items[1].y - img.h ELSE d.cursorTop
  IN updateColumnCursors([d EXCEPT !.items = <<SeedItem(img.id, y, img.h)>> \o @,
                                   !.acquired = @ + 1])

placeBelow(d) ==
  LET img == acquireImage(d)
      y == IF Len(d.items) > 0
           THEN d.items[Len(d.items)].y + d.items[Len(d.items)].h
           ELSE d.cursorBottom
  IN updateColumnCursors([d EXCEPT !.items = Append(@, SeedItem(img.id, y, img.h)),
                                   !.acquired = @ + 1])

\* while (columnTopY(col) > targetTop + EPSILON) placeAbove
RECURSIVE fillTop(_, _)
fillTop(d, targetTop) ==
  IF Len(d.items) = 0 \/ d.items[1].y > targetTop + EPSILON
  THEN fillTop(placeAbove(d), targetTop)
  ELSE d

\* while (columnBottomY(col) < targetBottom - EPSILON) placeBelow
RECURSIVE fillBottom(_, _)
fillBottom(d, targetBottom) ==
  IF \/ Len(d.items) = 0
     \/ d.items[Len(d.items)].y + d.items[Len(d.items)].h < targetBottom - EPSILON
  THEN fillBottom(placeBelow(d), targetBottom)
  ELSE d

\* The column of a call up to the healing: seeded, its cursors set, filled as
\* a new column when it had no items, then filled by the direction of the
\* move. othersNew: another column of the call is new.
FillColumn(d0, othersNew) ==
  LET targetTop == d0.view.y
      targetBottom == d0.view.y + d0.view.height
      isNew == Len(d0.items) = 0
      d1 == IF isNew
            THEN [d0 EXCEPT !.cursorTop = d0.view.y, !.cursorBottom = d0.view.y]
            ELSE updateColumnCursors(d0)
      d2 == IF isNew
            THEN fillBottom(fillTop(placeBelow(d1), targetTop), targetBottom)
            ELSE d1
  IN IF d0.dy > 0 THEN fillTop(d2, targetTop)
     ELSE IF d0.dy < 0 THEN fillBottom(d2, targetBottom)
     ELSE IF d0.dx # 0 \/ ~(isNew \/ othersNew)
          THEN fillBottom(fillTop(d2, targetTop), targetBottom)
          ELSE fillTop(d2, targetTop)

\* Binary searches of visibleGap; 0 stands for the -1 of the code.
RECURSIVE FirstFrom(_, _, _, _, _)
FirstFrom(items, limit, low, high, result) ==
  IF low > high THEN result
  ELSE LET mid == (low + high) \div 2
       IN IF items[mid].y + items[mid].h >= limit
          THEN FirstFrom(items, limit, low, mid - 1, mid)
          ELSE FirstFrom(items, limit, mid + 1, high, result)

findFirstItemWithBottomAtLeast(items, limit) == FirstFrom(items, limit, 1, Len(items), 0)

RECURSIVE LastFrom(_, _, _, _, _)
LastFrom(items, limit, low, high, result) ==
  IF low > high THEN result
  ELSE LET mid == (low + high) \div 2
       IN IF items[mid].y <= limit
          THEN LastFrom(items, limit, mid + 1, high, mid)
          ELSE LastFrom(items, limit, low, mid - 1, result)

findLastItemWithTopAtMost(items, limit) == LastFrom(items, limit, 1, Len(items), 0)

visibleGap(items, viewBounds) ==
  LET topLimit == viewBounds.y
      bottomLimit == viewBounds.y + viewBounds.height
      topIndex == findFirstItemWithBottomAtLeast(items, topLimit)
      bottomIndex == findLastItemWithTopAtMost(items, bottomLimit)
  IN IF Len(items) = 0
     THEN [topIndex |-> 0, bottomIndex |-> 0, gapPx |-> bottomLimit - topLimit]
     ELSE IF topIndex = 0 \/ bottomIndex = 0 \/ topIndex > bottomIndex
     THEN [topIndex |-> topIndex, bottomIndex |-> bottomIndex,
           gapPx |-> bottomLimit - topLimit]
     ELSE [topIndex |-> topIndex, bottomIndex |-> bottomIndex,
           gapPx |-> items[bottomIndex].y - (items[topIndex].y + items[topIndex].h)]

\* The gap has both of its items and is wider than EPSILON.
GapToHeal(gap) == gap.topIndex > 0 /\ gap.bottomIndex > 0 /\ gap.gapPx > EPSILON

shiftSegment(d, start, end, delta) ==
  IF delta = 0 \/ start < 1 \/ end < start THEN d
  ELSE updateColumnCursors(
         [d EXCEPT !.items = [i \in 1..Len(d.items) |->
                                IF i >= start /\ i <= end
                                THEN [d.items[i] EXCEPT !.y = @ + delta]
                                ELSE d.items[i]]])

insertAboveIndex(d, neighborIndex) ==
  LET img == acquireImage(d)
      placed == SeedItem(img.id, d.items[neighborIndex].y - img.h, img.h)
  IN updateColumnCursors([d EXCEPT !.items = Splice(@, neighborIndex, placed),
                                   !.acquired = @ + 1])

insertBelowIndex(d, neighborIndex) ==
  LET img == acquireImage(d)
      placed == SeedItem(img.id, d.items[neighborIndex].y + d.items[neighborIndex].h,
                         img.h)
  IN updateColumnCursors([d EXCEPT !.items = Splice(@, neighborIndex + 1, placed),
                                   !.acquired = @ + 1])

\* fillGapFrom...: the column after it, and whether it returned true.
fillGapFromBottom(d) ==
  LET gap == visibleGap(d.items, d.view)
  IN IF ~GapToHeal(gap) THEN [d |-> d, again |-> FALSE]
     ELSE IF gap.gapPx > d.items[gap.bottomIndex].h + EPSILON
     THEN [d |-> insertAboveIndex(d, gap.bottomIndex), again |-> TRUE]
     ELSE [d |-> shiftSegment(d, gap.bottomIndex, Len(d.items), -gap.gapPx),
           again |-> FALSE]

fillGapFromTop(d) ==
  LET gap == visibleGap(d.items, d.view)
  IN IF ~GapToHeal(gap) THEN [d |-> d, again |-> FALSE]
     ELSE IF gap.gapPx > d.items[gap.topIndex].h + EPSILON
     THEN [d |-> insertBelowIndex(d, gap.topIndex), again |-> TRUE]
     ELSE [d |-> shiftSegment(d, 1, gap.topIndex, gap.gapPx), again |-> FALSE]

\* The anchor healColumnGaps chooses for a gap.
HealAnchor(d, gap) ==
  IF d.dy > 0 THEN "bottom"
  ELSE IF d.dy < 0 THEN "top"
  ELSE IF d.dx # 0
       THEN (IF d.items[gap.topIndex].h <= d.items[gap.bottomIndex].h
             THEN "top" ELSE "bottom")
       ELSE "bottom"

GIdle ==
  /\ display = Null
  /\ displayPc = "idle"
  /\ healCount = 0

\* computeMasonryDisplay(images, bounds, prevBounds, getImage, options) up to
\* the first pass of the loop of healColumnGaps, which returns at once for a
\* column of fewer than two items.
DisplayCall(images, viewBounds, move, supply, othersNew) ==
  /\ displayPc = "idle"
  /\ LET d == FillColumn([items |-> seedColumnsFromImages(images, <<>>),
                          cursorTop |-> 0, cursorBottom |-> 0, acquired |-> 0,
                          supply |-> supply, view |-> viewBounds,
                          dx |-> move.dx, dy |-> move.dy], othersNew)
     IN /\ display' = d
        /\ displayPc' = IF Len(d.items) < 2 THEN "returned" ELSE "heal"
  /\ UNCHANGED healCount

\* One pass of the while (true) of healColumnGaps.
HealPass ==
  /\ displayPc = "heal"
  /\ healCount < MaxHealSteps
  /\ LET gap == visibleGap(display.items, display.view)
     IN IF ~GapToHeal(gap)
        THEN /\ displayPc' = "returned"
             /\ UNCHANGED display
        ELSE LET r == IF HealAnchor(display, gap) = "bottom"
                      THEN fillGapFromBottom(display)
                      ELSE fillGapFromTop(display)
             IN /\ display' = r.d
                /\ displayPc' = IF r.again THEN "heal" ELSE "returned"
  /\ healCount' = healCount + 1

GNext ==
  /\ \/ \E images \in SeedLists, viewBounds \in DisplayBounds, move \in DisplayMoves,
          supply \in Supplies, othersNew \in BOOLEAN :
          DisplayCall(images, viewBounds, move, supply, othersNew)
     \/ HealPass
  /\ UNCHANGED mvars
  /\ UNCHANGED svars
  /\ UNCHANGED avars
  /\ UNCHANGED cvars
  /\ UNCHANGED lvars
  /\ UNCHANGED hvars
  /\ UNCHANGED dvars
  /\ UNCHANGED wvars
  /\ UNCHANGED uvars
  /\ UNCHANGED pvars

\* ------------------------------------------------------------------ computeMasonryLayout
\* The waterfall layout of src/src/lib/masonry.ts, one image of the list per
\* step. Options: columnWidth, columnGap and rowGap of Cfg; bounds,
\* columnCount, initialColumnHeights and align are inputs.
MaxImages == 3

\* Both dimensions negative: the ratio width / height is positive.
Mirrored == [width |-> -1, height |-> -1, widthFinite |-> TRUE, heightFinite |-> TRUE]

WaterfallImages == {Wide, Square, NoWidth, NoHeight, Mirrored}

ImageLists == UNION {[1..n -> WaterfallImages] : n \in 0..MaxImages}

WaterfallOptions ==
  [bounds : {[x |-> 0, y |-> 0, width |-> w, height |-> 3] : w \in {0, 2, 5}},
   columnCount : {Null, Some(3)},
   initialColumnHeights : {Null, Some(<<1>>), Some(<<2, 0>>)},
   align : {"start", "center", "end"}]

\* const ar = img.width && img.height ? img.width / img.height : undefined;
\* the test !ar || !Number.isFinite(ar) || ar <= 0 fails.
HasAspectRatio(img) ==
  /\ img.widthFinite /\ img.width # 0
  /\ img.heightFinite /\ img.height # 0
  /\ (img.width > 0) = (img.height > 0)

\* Math.max(1, Math.round(columnWidth / ar))
renderHeightOf(img) ==
  Max2(1, RoundDiv(Cfg.columnWidth * Abs(img.height), Abs(img.width)))

RECURSIVE PickFrom(_, _, _, _)
PickFrom(colHeights, c, targetCol, minH) ==
  IF c > Len(colHeights) THEN targetCol
  ELSE IF colHeights[c] < minH
       THEN PickFrom(colHeights, c + 1, c, colHeights[c])
       ELSE PickFrom(colHeights, c + 1, targetCol, minH)

\* The first column of the list, whatever the heights.
FirstColumn(colHeights) == 1

\* The column with the smallest current height (columns count from 1 here).
TargetColumn(colHeights) == PickFrom(colHeights, 2, 1, colHeights[1])

WIdle == waterfall = Null

\* computeMasonryLayout(images, options) up to the loop over the images; with
\* bounds of no width it returns a result without items or columns.
computeMasonryLayout(imgs, opts) ==
  /\ waterfall = Null
  /\ LET view == opts.bounds
         columnCount ==
           IF opts.columnCount # Null THEN opts.columnCount[1]
           ELSE Max2(1, (view.width + Cfg.columnGap) \div columnSpan)
         totalColsWidth == columnCount * Cfg.columnWidth + (columnCount - 1) * Cfg.columnGap
         leftOffset ==
           view.x + (IF opts.align = "center"
                     THEN Max2(0, (view.width - totalColsWidth) \div 2)
                     ELSE IF opts.align = "end"
                     THEN Max2(0, view.width - totalColsWidth)
                     ELSE 0)
         given == opts.initialColumnHeights
         seeded == [i \in 1..columnCount |->
                      IF given = Null THEN view.y
                      ELSE IF i <= Len(given[1]) THEN given[1][i]
                      ELSE given[1][Len(given[1])]]
     IN waterfall' =
          IF view.width <= 0 \/ view.height <= 0
          THEN [images |-> imgs, bounds |-> view, i |-> Len(imgs), columnX |-> <<>>,
                colHeights |-> <<>>, laidOut |-> <<>>, last |-> Null]
          ELSE [images |-> imgs, bounds |-> view, i |-> 0,
                columnX |-> [c \in 1..columnCount |-> leftOffset + (c - 1) * columnSpan],
                colHeights |-> seeded, laidOut |-> <<>>, last |-> Null]

\* One pass of the loop over the images. last (history): the column and the
\* y chosen for the image, Null when it was skipped.
LayOutImage ==
  /\ waterfall # Null
  /\ waterfall.i < Len(waterfall.images)
  /\ LET img == waterfall.images[waterfall.i + 1]
         renderHeight == renderHeightOf(img)
         targetCol == TargetColumn(waterfall.colHeights)
         y == waterfall.colHeights[targetCol]
         intersectsVertically ==
           ~(y + renderHeight < waterfall.bounds.y
             \/ y > waterfall.bounds.y + waterfall.bounds.height)
     IN waterfall' =
          IF ~HasAspectRatio(img)
          THEN [waterfall EXCEPT !.i = @ + 1, !.last = Null]
          ELSE [waterfall EXCEPT
                  !.i = @ + 1,
                  !.laidOut = IF intersectsVertically
                              THEN Append(@, [id |-> waterfall.i,
                                              x |-> waterfall.columnX[targetCol],
                                              y |-> y])
                              ELSE @,
                  !.colHeights[targetCol] = y + renderHeight + Cfg.rowGap,
                  !.last = Some([col |-> targetCol, y |-> y])]

WNext ==
  /\ \/ \E imgs \in ImageLists, opts \in WaterfallOptions : computeMasonryLayout(imgs, opts)
     \/ LayOutImage
  /\ UNCHANGED mvars
  /\ UNCHANGED svars
  /\ UNCHANGED avars
  /\ UNCHANGED cvars
  /\ UNCHANGED lvars
  /\ UNCHANGED hvars
  /\ UNCHANGED dvars
  /\ UNCHANGED gvars
  /\ UNCHANGED uvars
  /\ UNCHANGED pvars

\* ------------------------------------------------------------------ useGridItems
\* The request effect of useGridItems (src/src/hooks/useGridItems.ts), with a
\* getItems that is set. The items of a result are told apart by the request
\* that produced them.
MaxRequests == 4

\* What getItems returns: a promise, an array, or undefined.
Returns == {"promise", "array", "undefined"}

NoItems == [request |-> 0, items |-> "initial"]

\* The test of handleResult that lets every result through.
AnyRequest(currentRequest) == TRUE

\* currentRequest === requestIdRef.current
IsCurrent(currentRequest) == currentRequest = requestIdRef

\* handleResult(result) of the request currentRequest, and the catch callback
\* for outcome "rejected": the dynamicItems after it.
handleResult(currentRequest, outcome) ==
  IF ~IsCurrent(currentRequest) THEN dynamicItems
  ELSE IF outcome = "array" THEN [request |-> currentRequest, items |-> "result"]
  ELSE [request |-> currentRequest, items |-> "empty"]

UIdle ==
  /\ requestIdRef = 0
  /\ prevViewRef = Null
  /\ dynamicItems = NoItems
  /\ gridRequests = {}

\* The effect runs for a new view.
RequestEffect(hasViewport, view, maybe) ==
  /\ requestIdRef < MaxRequests
  /\ IF ~hasViewport
     THEN UNCHANGED <<requestIdRef, prevViewRef, dynamicItems, gridRequests>>
     ELSE /\ requestIdRef' = requestIdRef + 1
          /\ prevViewRef' = Some(view)
          /\ IF maybe = "promise"
             THEN /\ gridRequests' = gridRequests \cup {requestIdRef + 1}
                  /\ UNCHANGED dynamicItems
             ELSE /\ dynamicItems' = [request |-> requestIdRef + 1,
                                      items |-> IF maybe = "array" THEN "result"
                                                ELSE "empty"]
                  /\ UNCHANGED gridRequests

\* The promise of a request settles: fulfilled with an array, fulfilled with
\* undefined, or rejected.
RequestSettles(currentRequest, outcome) ==
  /\ currentRequest \in gridRequests
  /\ gridRequests' = gridRequests \ {currentRequest}
  /\ dynamicItems' = handleResult(currentRequest, outcome)
  /\ UNCHANGED <<requestIdRef, prevViewRef>>

UNext ==
  /\ \/ \E hasViewport \in BOOLEAN, view \in Views, maybe \in Returns :
          RequestEffect(hasViewport, view, maybe)
     \/ \E currentRequest \in gridRequests, outcome \in {"array", "undefined", "rejected"} :
          RequestSettles(currentRequest, outcome)
  /\ UNCHANGED mvars
  /\ UNCHANGED svars
  /\ UNCHANGED avars
  /\ UNCHANGED cvars
  /\ UNCHANGED lvars
  /\ UNCHANGED hvars
  /\ UNCHANGED dvars
  /\ UNCHANGED gvars
  /\ UNCHANGED wvars
  /\ UNCHANGED pvars

\* ------------------------------------------------------------------ InfiniteArtGrid pages
\* loadPage and scheduleNextPage of InfiniteArtGrid
\* (src/src/components/ArtworkGrid.jsx), with the fetches of fetchArtworksPage
\* in flight between the call and its settlement.
MaxGridPage == 2
MaxPageFetches == 3
MaxMounts == 2

GridPages == 1..MaxGridPage

\* The fetches of a page that were started and have not settled.
FetchesInFlight(p) == pageLog.started[p] - pageLog.failed[p] - pageLog.succeeded[p]

PIdle ==
  /\ requestedPages = {}
  /\ debounceRef = Null
  /\ grid = [hasMore |-> TRUE, nextPage |-> Some(1), loading |-> FALSE, error |-> FALSE]
  /\ pageLog = [started |-> [p \in GridPages |-> 0], failed |-> [p \in GridPages |-> 0],
                succeeded |-> [p \in GridPages |-> 0], mounts |-> 0,
                lastLoad |-> Null]

\* A loadPage that never looks at the requested set.
NeverRequested(p) == FALSE

\* requestedPages.current.has(page)
AlreadyRequested(p) == p \in requestedPages

\* loadPage(page) up to its await: the early return, or the page marked and
\* fetchArtworksPage(page) called.
loadPage(p, log) ==
  IF AlreadyRequested(p)
  THEN /\ pageLog' = [log EXCEPT !.lastLoad = Some([page |-> p, fetched |-> FALSE])]
       /\ UNCHANGED <<requestedPages, grid>>
  ELSE /\ pageLog.started[p] < MaxPageFetches
       /\ requestedPages' = requestedPages \cup {p}
       /\ grid' = [grid EXCEPT !.loading = TRUE, !.error = FALSE]
       /\ pageLog' = [log EXCEPT !.started[p] = @ + 1,
                                 !.lastLoad = Some([page |-> p, fetched |-> TRUE])]

\* The mount effect: loadPage(1).
MountEffect ==
  /\ pageLog.mounts < MaxMounts
  /\ loadPage(1, [pageLog EXCEPT !.mounts = @ + 1])
  /\ UNCHANGED debounceRef

\* scheduleNextPage(), called from handleItemsRendered.
scheduleNextPage ==
  /\ grid.hasMore /\ grid.nextPage # Null /\ ~grid.loading
  /\ grid.nextPage[1] \notin requestedPages
  /\ debounceRef = Null
  /\ debounceRef' = grid.nextPage
  /\ UNCHANGED <<requestedPages, grid, pageLog>>

\* The debounce timer fires: loadPage(nextPage) with the page of the closure.
DebounceFires ==
  /\ debounceRef # Null
  /\ debounceRef' = Null
  /\ loadPage(debounceRef[1], pageLog)

\* fetchArtworksPage(page) fulfils: hasMore and nextPage are the server's.
GridPageArrives(p, more, next) ==
  /\ FetchesInFlight(p) > 0
  /\ grid' = [grid EXCEPT !.hasMore = more, !.nextPage = IF more THEN next ELSE Null,
                          !.loading = FALSE]
  /\ pageLog' = [pageLog EXCEPT !.succeeded[p] = @ + 1]
  /\ UNCHANGED <<requestedPages, debounceRef>>

\* fetchArtworksPage(page) rejects: the catch and the finally block.
GridPageFails(p) ==
  /\ FetchesInFlight(p) > 0
  /\ requestedPages' = requestedPages \ {p}
  /\ grid' = [grid EXCEPT !.error = TRUE, !.loading = FALSE]
  /\ pageLog' = [pageLog EXCEPT !.failed[p] = @ + 1]
  /\ UNCHANGED debounceRef

PNext ==
  /\ \/ MountEffect
     \/ scheduleNextPage
     \/ DebounceFires
     \/ \E p \in GridPages, more \in BOOLEAN, next \in {Null} \cup {Some(q) : q \in GridPages} :
          GridPageArrives(p, more, next)
     \/ \E p \in GridPages : GridPageFails(p)
  /\ UNCHANGED mvars
  /\ UNCHANGED svars
  /\ UNCHANGED avars
  /\ UNCHANGED cvars
  /\ UNCHANGED lvars
  /\ UNCHANGED hvars
  /\ UNCHANGED dvars
  /\ UNCHANGED gvars
  /\ UNCHANGED wvars
  /\ UNCHANGED uvars

\* ------------------------------------------------------------------ specifications
\* The store of the grid while the layout engine is observed.
SIdle ==
  /\ sectors = << >>
  /\ order = << >>
  /\ bounds = Null
  /\ maxSectors = MAX_SECTORS
  /\ artworkCount = 0
  /\ touchLog = << >>
  /\ createLog = << >>
  /\ evicted = << >>
  /\ lastOp = Handler("constructor", sectorKey(0, 0), 0)
  /\ firstIndex = [t \in TrackedTiles |-> Null]

\* The generator and the chunk encoder while another part is observed.
AIdle == AStart([num |-> 0, den |-> 4], 0)

CIdle == CStart([x |-> 0, y |-> 0], [x |-> 0, y |-> 0])

Init == MInit /\ SIdle /\ AIdle /\ CIdle /\ LInit /\ HIdle /\ DIdle /\ GIdle /\ WIdle /\ UIdle /\ PIdle

\* getItems calls overlapping freely.
SpecMasonry == Init /\ [][MNext]_vars

\* Every getItems call awaited before the next is issued.
SpecMasonrySeq == Init /\ [][MSeqNext]_vars

\* One getItems call with a caller that takes debug snapshots and writes to
\* what it got.
SpecMasonryDebug == Init /\ [][MDebugNext]_vars

\* The sector store under the grid's handlers, for any cap.
InitSector == MStart(<<Square, Wide>>) /\ SInit /\ AIdle /\ CIdle /\ LInit /\ HIdle /\ DIdle /\ GIdle /\ WIdle /\ UIdle /\ PIdle

SpecSector == InitSector /\ [][SNext]_vars

\* The sector store with the history of the tracked coordinates.
SpecSectorHistory == InitSector /\ [][SHistoryNext]_vars

\* The sector store under any sequence of getOrCreate and evictIfNeeded calls.
SpecStore == InitSector /\ [][StoreNext]_vars

\* The image generator against any API responses.
InitGenerator == MStart(<<Square, Wide>>) /\ SIdle /\ AInit /\ CIdle /\ LInit /\ HIdle /\ DIdle /\ GIdle /\ WIdle /\ UIdle /\ PIdle

SpecGenerator == InitGenerator /\ [][ANext]_vars

\* encodeChunkIndex on every pair of chunk coordinates of the range.
InitChunks == MStart(<<Square, Wide>>) /\ SIdle /\ AIdle /\ CInit /\ LInit /\ HIdle /\ DIdle /\ GIdle /\ WIdle /\ UIdle /\ PIdle

SpecChunks == InitChunks /\ [][CNext]_vars

\* The chunk loader of App under any viewport changes and replies.
InitLoader == MStart(<<Square, Wide>>) /\ SIdle /\ AIdle /\ CIdle /\ LInit /\ HIdle /\ DIdle /\ GIdle /\ WIdle /\ UIdle /\ PIdle

SpecLoader == InitLoader /\ [][LNext]_vars

\* stableArtworkIndex on every cell and artworkCount of the range.
InitMapping == MStart(<<Square, Wide>>) /\ SIdle /\ AIdle /\ CIdle /\ LInit /\ HInit /\ DIdle /\ GIdle /\ WIdle /\ UIdle /\ PIdle

SpecMapping == InitMapping /\ [][HNext]_vars

\* computeMasonryDisplay, one column: the call, then the passes of the healing loop.
InitDisplay == MStart(<<Square, Wide>>) /\ SIdle /\ AIdle /\ CIdle /\ LInit /\ HIdle /\ DIdle /\ GIdle /\ WIdle /\ UIdle /\ PIdle

SpecDisplay == InitDisplay /\ [][GNext]_vars

\* computeMasonryLayout: the call, then the loop over its images.
SpecWaterfall == InitDisplay /\ [][WNext]_vars

\* useGridItems: request effects and the settlements of their promises.
SpecGridItems == InitDisplay /\ [][UNext]_vars

\* InfiniteArtGrid: mount effects, scheduled loads and the settlements of the fetches.
SpecGridPages == InitDisplay /\ [][PNext]_vars


\* ================================================================== claims
UnitsIn(statuses) == {u \in 1..Len(units) : units[u].status \in statuses}

\* All items of all columns.
AllItems == UNION {{columns[c][i] : i \in 1..Len(columns[c])} : c \in DOMAIN columns}

\* C1: in every column, every item lies at least rowGap below the item before
\* it: b.y - (a.y + a.height) >= rowGap, for any getItems calls.
C1_RowGapKept ==
  \A c \in DOMAIN columns : \A i \in 1..(Len(columns[c]) - 1) :
    columns[c][i + 1].y - (columns[c][i].y + columns[c][i].height) >= Cfg.rowGap

\* The functions that fill a column that has no items yet.
PopulatingFns == {"fillColumnDownward", "populateNewColumn"}

\* C2: while the initialization is in flight no processBorders has begun (a
\* second getItems call waits for it), and no column received items from more
\* than one populating fill (fillColumnDownward of initialize,
\* populateNewColumn of a border unit).
C2_InitializationShared ==
  /\ initTask.status = "pending" => \A u \in 1..Len(units) : ~units[u].started
  /\ \A c \in DOMAIN columns :
       Cardinality({<<columns[c][i].call, columns[c][i].fn>> :
                      i \in {j \in 1..Len(columns[c]) : columns[c][j].fn \in PopulatingFns}}) <= 1

\* C3: at most one processBorders execution is active at any time.
C3_OneBorderUnitActive == Cardinality(UnitsIn({"running"})) <= 1

\* A unit runs while a unit scheduled after it waits in the chain.
C3_Witness ==
  \E u, w \in 1..Len(units) :
    u < w /\ units[u].status = "running" /\ units[w].status = "queued"

\* C4: the work of the calls is ordered by issue order: when the border unit
\* of a call has begun, every call issued before it has settled (its
\* initialization and its border unit ran to completion).
C4_IssueOrder ==
  \A i, j \in 1..Len(calls) :
    (i < j /\ calls[j].pc = "awaitBorder" /\ units[calls[j].unit].started)
      => CallStatus(i) # "pending"

\* C5: a border unit rejects only when its own processBorders ran and its
\* generator call rejected: the rejection of one unit never rejects a unit
\* scheduled behind it, which still runs.
C5_FailureDoesNotPoison ==
  \A u \in 1..Len(units) : units[u].status = "rejected" => units[u].started

\* A unit rejected and a unit scheduled behind it ran and resolved.
C5_Witness ==
  \E u, w \in 1..Len(units) :
    u < w /\ units[u].status = "rejected" /\ units[w].status = "resolved"
          /\ CallStatus(units[u].call) = "rejected"
          /\ CallStatus(units[w].call) = "resolved"

\* Every required column of view has items that span view.y .. view.y + height.
Covered(view) ==
  \A c \in getRequiredColumnRange(view).min..getRequiredColumnRange(view).max :
    /\ c \in DOMAIN columns
    /\ Len(columns[c]) > 0
    /\ columns[c][1].y <= view.y
    /\ columns[c][Len(columns[c])].y + columns[c][Len(columns[c])].height
         >= view.y + view.height

\* C6: after getItems(view) resolved, every column of the required range of
\* view is non-empty and spans the view vertically (here: when no generator
\* call rejected).
C6_ViewCovered ==
  \A i \in 1..Len(calls) :
    (CallStatus(i) = "resolved" /\ rejectCount = 0) => Covered(calls[i].view)

\* C7: the border unit of a getItems call that repeats the view of the
\* resolved call before it ends at once, makes no generator call and leaves
\* columns and placed items as they were.
C7_RepeatIsNoOp ==
  [][\A u \in 1..Len(units) :
       (calls[units[u].call].repeat /\ units[u].status = "queued"
          /\ units'[u].status # "queued")
         => /\ units'[u].status = "resolved"
            /\ genCalls' = genCalls
            /\ columns' = columns
            /\ placedImages' = placedImages]_vars

\* A repeated call went through its border unit and resolved, on columns
\* that a populateNewColumn of an earlier unit filled.
C7_Witness ==
  \E u \in 1..Len(units) :
    /\ calls[units[u].call].repeat
    /\ units[u].status = "resolved"
    /\ \E it \in AllItems : it.fn = "populateNewColumn"

\* C8: the number of resident sectors never exceeds maxSectors (for a store
\* built with a positive cap), whatever getOrCreate calls were made.
C8_SizeWithinCap == maxSectors >= 1 => Cardinality(DOMAIN sectors) <= maxSectors

\* C9: every sector that evictIfNeeded removed was, when it was removed, the
\* least recently touched (created or hit by getOrCreate) of the resident
\* sectors.
C9_EvictsLeastRecent == \A i \in 1..Len(evicted) : evicted[i].leastRecent

\* An eviction removed a sector that was not the first created of the
\* residents: a sector created earlier was touched again and stayed.
C9_Witness ==
  /\ lastOp.name = "handleItemsRendered"
  /\ \E i \in 1..Len(evicted) : evicted[i].leastRecent /\ ~evicted[i].firstCreated
  /\ Cardinality(DOMAIN sectors) > 0

\* C10: a ready tile of a sector that stays resident keeps its state and its
\* artworkIndex through every handler: populateSector (from
\* handleItemsRendered and from the effect on artworks.length) and the cell
\* render, whatever the artwork count has become.
C10_ReadyTileKept ==
  [][\A k \in DOMAIN sectors \cap DOMAIN sectors' :
       \A i \in 1..(SECTOR_SIZE * SECTOR_SIZE) :
         sectors[k].tiles[i].state = "ready" => sectors'[k].tiles[i] = sectors[k].tiles[i]]_vars

\* A cell was rendered whose tile is ready with an artworkIndex that the
\* present artwork count would not give it: the count grew after the tile was
\* assigned, the effect ran populateSector over it, and the render kept it.
C10_Witness ==
  /\ lastOp.name = "Cell"
  /\ lastOp.key \in DOMAIN sectors
  /\ LET sector == sectors[lastOp.key]
         tile == sector.tiles[lastOp.tile]
         localCol == (lastOp.tile - 1) % SECTOR_SIZE
         localRow == (lastOp.tile - 1) \div SECTOR_SIZE
     IN /\ tile.state = "ready"
        /\ tile.artworkIndex # Some(ArtworkIndexOf[sector.sx * SECTOR_SIZE + localCol,
                                                   sector.sy * SECTOR_SIZE + localRow,
                                                   artworkCount])

\* C11: a coordinate that shows a ready tile shows the artworkIndex it showed
\* the first time, also after its sector was evicted and created again and
\* the artwork count grew in between.
C11_SameIndexEveryTime ==
  \A t \in TrackedTiles :
    LET tile == TileAt(sectors, t[1], t[2])
    IN (tile # Null /\ tile[1].state = "ready") => tile[1].artworkIndex = firstIndex[t]

\* The attempts after which a fill loop is to give up.
MaxFetchAttempts == 10

\* C12: no fill loop (initial fill, upward and downward extension, new
\* column) discards more than MaxFetchAttempts generator results in a row:
\* it gives up and lets getItems settle.
C12_FillGivesUp ==
  /\ initTask.discards <= MaxFetchAttempts
  /\ \A u \in 1..Len(units) : units[u].discards <= MaxFetchAttempts

\* An image whose natural width or height is non-finite or non-positive.
InvalidImage(image) ==
  \/ ~image.widthFinite \/ image.width <= 0
  \/ ~image.heightFinite \/ image.height <= 0

\* C13: when a fill loop receives an invalid image, no column and no
\* placed-item list changes, and the loop asks again at the same insertion
\* point: the coroutine waits where it waited, with the same cursor.
C13_InvalidNeverPlaced ==
  [][/\ (initTask.status = "pending" /\ InvalidImage(initTask.image) /\ initTask' # initTask)
        => /\ columns' = columns
           /\ placedImages' = placedImages
           /\ initTask'.status = "pending" => initTask'.k = initTask.k
     /\ \A u \in 1..Len(units) :
          (units[u].status = "running" /\ InvalidImage(units[u].image) /\ units'[u] # units[u])
            => /\ columns' = columns
               /\ placedImages' = placedImages
               /\ units'[u].status = "running" => units'[u].k = units[u].k]_vars

\* populateNewColumn discarded an invalid image after it had placed an item,
\* and waits for the next image.
C13_Witness ==
  \E u \in 1..Len(units) :
    /\ units[u].status = "running"
    /\ units[u].discards > 0
    /\ units[u].k.phase \in {"right", "left"}
    /\ \E it \in AllItems : it.fn = "populateNewColumn" /\ it.columnIndex = units[u].k.col

\* C14: when a getItems call rejected because the generator rejected during
\* a fill, a later getItems call for the same view that resolves leaves every
\* required column of the view filled: what the rejected call left unfilled
\* is filled by the later call.
C14_LaterCallFills ==
  \A j, i \in 1..Len(calls) :
    (j < i /\ CallStatus(j) = "rejected" /\ CallStatus(i) = "resolved"
       /\ calls[i].view = calls[j].view)
      => Covered(calls[i].view)

\* C15: a resolved getItems(view) holds exactly the placed items that meet
\* the view widened by the horizontal and vertical overscan.
C15_ReturnsVisibleItems ==
  \A i \in 1..Len(calls) :
    CallStatus(i) = "resolved"
      => getItemsResult(calls[i].view) = collectVisibleItems(calls[i].view)

\* C16: in every column the items array is sorted by ascending y, after any
\* getItems calls.
C16_ColumnsSortedByY ==
  \A c \in DOMAIN columns : \A i \in 1..(Len(columns[c]) - 1) :
    columns[c][i].y <= columns[c][i + 1].y

\* C17: after getItems(view) resolved, every non-empty column of the
\* required range of view has its first item at or above the top border,
\* y <= view.y - verticalOverscan.
C17_TopBorderReached ==
  \A i \in 1..Len(calls) :
    CallStatus(i) = "resolved"
      => \A c \in getRequiredColumnRange(calls[i].view).min..
                   getRequiredColumnRange(calls[i].view).max :
           (c \in DOMAIN columns /\ Len(columns[c]) > 0)
             => columns[c][1].y <= BorderTop(calls[i].view)

\* C18: after getItems(view) resolved, a column exists for every integer
\* index from floor((view.x - horizontalOverscan - originX) / span) through
\* floor((view.x + view.width + horizontalOverscan - originX) / span), with
\* span = columnWidth + columnGap.
C18_RequiredColumnsExist ==
  \A i \in 1..Len(calls) :
    CallStatus(i) = "resolved"
      => LET view == calls[i].view
             span == Cfg.columnWidth + Cfg.columnGap
             first == (view.x - horizontalOverscan - Cfg.originX) \div span
             last == (view.x + view.width + horizontalOverscan - Cfg.originX) \div span
         IN \A c \in first..last : c \in DOMAIN columns

\* A call at the origin resolved, a later call panned to the right resolved,
\* and the columns now reach an index the first view did not require.
C18_Witness ==
  \E i, j \in 1..Len(calls) :
    /\ i < j
    /\ CallStatus(i) = "resolved"
    /\ CallStatus(j) = "resolved"
    /\ calls[i].view.x < calls[j].view.x
    /\ \E c \in DOMAIN columns :
         /\ c > (calls[i].view.x + calls[i].view.width + horizontalOverscan
                   - Cfg.originX) \div (Cfg.columnWidth + Cfg.columnGap)
         /\ c = (calls[j].view.x + calls[j].view.width + horizontalOverscan
                   - Cfg.originX) \div (Cfg.columnWidth + Cfg.columnGap)

\* C19: every image the generator returns has an id different from the id
\* of every image it returned before, for any number of calls and across
\* page wrap-around.
C19_IdsNeverRepeat ==
  \A i, j \in 1..Len(returned) : i # j => returned[i].id # returned[j].id

\* A page was requested a second time, an artwork was refused because its id
\* had been seen, and the generator returned images before and after.
C19_Witness ==
  /\ fetchHistory.again
  /\ fetchHistory.refused
  /\ Len(returned) >= 2

\* C20: encodeChunkIndex gives different results for different pairs of
\* signed integers, and every result is a non-negative integer.
C20_EncodeInjective ==
  (chunkIndex[1] # Null /\ chunkIndex[2] # Null)
    => /\ chunks[1] # chunks[2] => chunkIndex[1][1] # chunkIndex[2][1]
       /\ chunkIndex[1][1] \in Nat
       /\ chunkIndex[2][1] \in Nat

\* Two different pairs with negative coordinates were both encoded.
C20_Witness ==
  /\ chunkIndex[1] # Null
  /\ chunkIndex[2] # Null
  /\ chunks[1] # chunks[2]
  /\ chunks[1].x < 0
  /\ chunks[2].y < 0
  /\ chunks[1].y = -chunks[2].y

\* C21: for index >= 0 and totalPages >= 1, resolvePageNumber(index,
\* totalPages) is (index mod totalPages) + 1 and lies in 1..totalPages; the
\* same chunk coordinate resolves to the same page under the same totalPages.
C21_PageIsIndexModTotal ==
  /\ \A i \in 1..2 :
       (chunkPage[i] # Null /\ chunkIndex[i][1] >= 0 /\ chunkPage[i][1].totalPages >= 1)
         => /\ chunkPage[i][1].page
                 = (chunkIndex[i][1] % chunkPage[i][1].totalPages) + 1
            /\ chunkPage[i][1].page \in 1..chunkPage[i][1].totalPages
  /\ (/\ chunkPage[1] # Null
      /\ chunkPage[2] # Null
      /\ chunks[1] = chunks[2]
      /\ chunkPage[1][1].totalPages = chunkPage[2][1].totalPages)
       => chunkPage[1][1].page = chunkPage[2][1].page

\* An index larger than the page count was resolved, and the same chunk was
\* resolved twice under one page count.
C21_Witness ==
  /\ chunkPage[1] # Null
  /\ chunkPage[2] # Null
  /\ chunks[1] = chunks[2]
  /\ chunkPage[1][1].totalPages = 3
  /\ chunkPage[2][1].totalPages = 3
  /\ chunkIndex[1][1] > 3
  /\ chunkPage[1][1].page = 3

\* C25: each chunk key has at most one fetch in flight, and no fetch starts
\* for a chunk whose stored status is ready.
C25_OneFetchPerChunk ==
  /\ [](\A f, g \in fetches : f.key = g.key => f = g)
  /\ [][\A f \in fetches' \ fetches :
          f.st = "fetching" => StatusOf(Loader, f.key) # "ready"]_vars

\* A request was skipped for a ready chunk and one for a chunk in flight,
\* while a chunk is ready and another is being fetched.
C25_Witness ==
  /\ skips = {"ready", "inflight"}
  /\ \E k \in DOMAIN chunkStore : chunkStore[k] = "ready"
  /\ \E f \in fetches : f.st = "fetching" /\ StatusOf(Loader, f.key) = "error"

\* C22: stableArtworkIndex returns -1 without throwing when artworkCount <= 0
\* and an integer in 0..artworkCount - 1 when artworkCount > 0, for every
\* col, row and seed.
C22_SentinelOrInRange ==
  \A count \in DOMAIN mapped :
    mapped[count] # Null
      => IF count <= 0 THEN mapped[count][1] = -1
         ELSE mapped[count][1] \in 0..(count - 1)

\* The mapping was applied with an empty pool, a negative count and the
\* largest count, for a cell with negative coordinates.
C22_Witness ==
  /\ cell.col < 0
  /\ cell.row < 0
  /\ mapped[0] # Null
  /\ mapped[-1] # Null
  /\ mapped[MaxBuckets] # Null
  /\ mapped[MaxBuckets][1] > 0

\* C23: for every coordinate key and pool size N >= 1, the index mapped with
\* pool size N + 1 is the index mapped with pool size N or the new bucket N.
C23_GrowthKeepsOrMovesToNew ==
  \A n \in 1..(MaxBuckets - 1) :
    (mapped[n] # Null /\ mapped[n + 1] # Null)
      => mapped[n + 1][1] \in {mapped[n][1], n}

\* A cell that moved to the new bucket at one growth and stayed at another.
C23_Witness ==
  \E n, m \in 1..(MaxBuckets - 1) :
    /\ mapped[n] # Null /\ mapped[n + 1] # Null
    /\ mapped[m] # Null /\ mapped[m + 1] # Null
    /\ mapped[n + 1][1] = n /\ mapped[n][1] # n
    /\ mapped[m + 1][1] = mapped[m][1]
    /\ mapped[m][1] > 0

\* C24: a layout engine with a non-positive column width or gap, or a
\* SectorStore with a non-positive sector cap, is never produced: the
\* constructor throws.
C24_ConstructionRejectsInvalid ==
  /\ Cfg.columnWidth > 0
  /\ Cfg.columnGap > 0
  /\ maxSectors > 0

C27_BoundsExact ==
  /\ bounds = Null <=> DOMAIN sectors = {}
  /\ bounds # Null =>
       /\ \A k \in DOMAIN sectors :
            /\ bounds[1].minSx <= sectors[k].sx /\ sectors[k].sx <= bounds[1].maxSx
            /\ bounds[1].minSy <= sectors[k].sy /\ sectors[k].sy <= bounds[1].maxSy
       /\ \E k \in DOMAIN sectors : sectors[k].sx = bounds[1].minSx
       /\ \E k \in DOMAIN sectors : sectors[k].sx = bounds[1].maxSx
       /\ \E k \in DOMAIN sectors : sectors[k].sy = bounds[1].minSy
       /\ \E k \in DOMAIN sectors : sectors[k].sy = bounds[1].maxSy

\* evictIfNeeded removed a sector that lay outside the bounds of the sectors
\* that stay.
C27_Witness ==
  /\ lastOp.name = "evictIfNeeded"
  /\ bounds # Null
  /\ \E i \in 1..Len(evicted) :
       \/ evicted[i].key[1] < bounds[1].minSx
       \/ evicted[i].key[1] > bounds[1].maxSx
       \/ evicted[i].key[2] > bounds[1].maxSy

\* The place of a border fill in the order top, right, left, bottom.
BorderRank(phase) ==
  CASE phase = "top" -> 1
    [] phase = "right" -> 2
    [] phase = "left" -> 3
    [] phase = "bottom" -> 4
    [] phase = "end" -> 5

FillRank(fn) ==
  CASE fn = "extendColumnUpward" -> 1
    [] fn = "populateNewColumn" -> 2
    [] fn = "extendColumnDownward" -> 4
    [] fn = "fillColumnDownward" -> 0

\* C28: within one processBorders unit the border fills run in the order
\* top, right, left, bottom, each finishing before the next starts: a
\* running unit never goes back to an earlier fill, and the items it placed
\* are in that order.
C28_BorderOrder ==
  /\ [][\A u \in 1..Len(units) :
          (units[u].status = "running" /\ units'[u].status = "running")
            => BorderRank(units'[u].k.phase) >= BorderRank(units[u].k.phase)]_vars
  /\ [](\A a, b \in AllItems :
          (a.call = b.call /\ a.uid < b.uid /\ FillRank(a.fn) > 0)
            => FillRank(a.fn) <= FillRank(b.fn))

\* A unit that placed items on top is now filling at the bottom, and a unit
\* that populated new columns went on to the bottom.
C28_Witness ==
  \E u, w \in 1..Len(units) :
    /\ units[u].status = "running"
    /\ units[u].k.phase = "bottom"
    /\ \E it \in AllItems : it.call = units[u].call /\ it.fn = "extendColumnUpward"
    /\ \E it, other \in AllItems :
         /\ it.call = units[w].call /\ other.call = units[w].call
         /\ it.fn = "populateNewColumn" /\ other.fn = "extendColumnDownward"

\* The items of `before` at the indexes first..last are in `after` with the y
\* they had.
KeepY(before, after, first, last) ==
  \A i \in first..last :
    \E j \in 1..Len(after) : after[j].id = before[i].id /\ after[j].y = before[i].y

\* C29: in a pass of the healing loop of computeMasonryDisplay, after the
\* viewport moved down (dy > 0) no item of the bottom segment (the lower item
\* of the gap and the items below it) changes its y; after it moved up
\* (dy < 0) no item of the top segment (the upper item of the gap and the
\* items above it) changes its y; and no pass changes a y on both sides.
C29_AnchorSegmentKept ==
  [][displayPc = "heal" /\ display' # display =>
       LET gap == visibleGap(display.items, display.view)
           before == display.items
           after == display'.items
       IN /\ display.dy > 0 => KeepY(before, after, gap.bottomIndex, Len(before))
          /\ display.dy < 0 => KeepY(before, after, 1, gap.topIndex)
          /\ \/ KeepY(before, after, 1, gap.topIndex)
             \/ KeepY(before, after, gap.bottomIndex, Len(before))]_vars

\* C30: every placed item has the height max(1, round(columnWidth *
\* naturalHeight / naturalWidth)) of the generated image it was made from,
\* the width columnWidth, and the x originX + columnIndex * (columnWidth +
\* columnGap).
C30_PlacedGeometry ==
  \A c \in DOMAIN columns :
    \A i \in 1..Len(columns[c]) :
      LET placed == columns[c][i]
      IN /\ placed.height =
              Max2(1, RoundDiv(Cfg.columnWidth * placed.image.height, placed.image.width))
         /\ placed.width = Cfg.columnWidth
         /\ placed.x = Cfg.originX + placed.columnIndex * (Cfg.columnWidth + Cfg.columnGap)

\* Items of both heights are placed, in columns left and right of the origin,
\* by the first fill and by a border fill.
C30_Witness ==
  /\ \E c \in DOMAIN columns : c < 0 /\ \E i \in 1..Len(columns[c]) :
       columns[c][i].height = 1 /\ columns[c][i].image = Wide
  /\ \E c \in DOMAIN columns : c > 0 /\ \E i \in 1..Len(columns[c]) :
       columns[c][i].height = 2 /\ columns[c][i].image = Square
  /\ \E c \in DOMAIN columns : \E i \in 1..Len(columns[c]) :
       columns[c][i].fn = "extendColumnUpward"

\* C31: columns and placed items are never removed: a column index that
\* exists and an item that has been placed are still there, the item in its
\* column and in placedImages, after every later step of any getItems call.
C31_NothingRemoved ==
  [][/\ DOMAIN columns \subseteq DOMAIN columns'
     /\ \A c \in DOMAIN columns : \A i \in 1..Len(columns[c]) :
          \E j \in 1..Len(columns'[c]) : columns'[c][j].uid = columns[c][i].uid
     /\ \A i \in 1..Len(placedImages) :
          \E j \in 1..Len(placedImages') : placedImages'[j] = placedImages[i]]_vars

\* Two calls resolved, the later one for another view, and the items the
\* first call placed are in columns next to items of the later call.
C31_Witness ==
  \E i, j \in 1..Len(calls) :
    /\ i < j
    /\ CallStatus(i) = "resolved"
    /\ CallStatus(j) = "resolved"
    /\ calls[i].view # calls[j].view
    /\ \E it, other \in AllItems : it.call = i /\ other.call = j

\* C32: the render of a grid cell leaves the sector store as it was: no
\* tile's state or artworkIndex changes, no sector is created and the
\* recency order stays the same.
C32_RenderReadsOnly ==
  [][lastOp'.name = "Cell" => sectors' = sectors /\ order' = order]_vars

\* The ratio width / height of an image is there, finite and positive.
RatioValid(img) ==
  /\ img.widthFinite /\ img.heightFinite
  /\ img.width # 0 /\ img.height # 0
  /\ img.width * img.height > 0

\* C33: computeMasonryLayout places an image with a valid aspect ratio at the
\* current height of the column whose current height is smallest, the lowest
\* index among equals, and then adds renderHeight + rowGap to the height of
\* that column only; an image whose ratio is missing, not finite or not
\* positive is skipped and no column height changes.
C33_WaterfallPlacement ==
  [][waterfall # Null /\ waterfall' # waterfall =>
       LET img == waterfall.images[waterfall.i + 1]
           before == waterfall.colHeights
           after == waterfall'.colHeights
           renderHeight == Max2(1, RoundDiv(Cfg.columnWidth * Abs(img.height),
                                            Abs(img.width)))
       IN IF RatioValid(img)
          THEN \E c \in 1..Len(before) :
                 /\ \A d \in 1..Len(before) : before[c] <= before[d]
                 /\ \A d \in 1..(c - 1) : before[d] > before[c]
                 /\ waterfall'.last = Some([col |-> c, y |-> before[c]])
                 /\ after = [before EXCEPT ![c] = before[c] + renderHeight + Cfg.rowGap]
                 /\ \/ waterfall'.laidOut = waterfall.laidOut
                    \/ waterfall'.laidOut =
                         Append(waterfall.laidOut,
                                [id |-> waterfall.i, x |-> waterfall.columnX[c],
                                 y |-> before[c]])
          ELSE /\ after = before
               /\ waterfall'.last = Null
               /\ waterfall'.laidOut = waterfall.laidOut]_vars

\* A list of three images, one of them without a ratio, has been laid out in
\* more than one column: the last image went to a column other than the
\* first, among columns of different heights.
C33_Witness ==
  /\ waterfall # Null
  /\ waterfall.i = MaxImages
  /\ Len(waterfall.images) = MaxImages
  /\ \E i \in 1..MaxImages : ~RatioValid(waterfall.images[i])
  /\ waterfall.last # Null
  /\ waterfall.last[1].col > 1
  /\ \E c, d \in 1..Len(waterfall.colHeights) :
       waterfall.colHeights[c] # waterfall.colHeights[d]

\* C34: with getItems calls issued one at a time, each awaited before the
\* next, an item that has been placed keeps its x, y, width and height in
\* every later step, for any sequence of viewports.
C34_PlacedItemsStay ==
  [][\A c \in DOMAIN columns : \A i \in 1..Len(columns[c]) :
       \A d \in DOMAIN columns' : \A j \in 1..Len(columns'[d]) :
         columns'[d][j].uid = columns[c][i].uid
           => /\ columns'[d][j].x = columns[c][i].x
              /\ columns'[d][j].y = columns[c][i].y
              /\ columns'[d][j].width = columns[c][i].width
              /\ columns'[d][j].height = columns[c][i].height]_vars

\* A column holds an item of an earlier call between an item a later call
\* put on top of it and an item a later call put below it.
C34_Witness ==
  \E c \in DOMAIN columns : \E i, j, k \in 1..Len(columns[c]) :
    /\ i < j /\ j < k
    /\ columns[c][i].fn = "extendColumnUpward"
    /\ columns[c][k].fn = "extendColumnDownward"
    /\ columns[c][j].call < columns[c][i].call
    /\ columns[c][j].call < columns[c][k].call

\* C35: in every reachable state the flat placedImages list holds exactly the
\* items of the columns: every column item is in placedImages exactly once,
\* no item is in two columns or twice in one, and placedImages has no item
\* that is in no column.
C35_ListMatchesColumns ==
  /\ \A c \in DOMAIN columns : \A i \in 1..Len(columns[c]) :
       Cardinality({j \in 1..Len(placedImages) : placedImages[j] = columns[c][i].uid}) = 1
  /\ \A j \in 1..Len(placedImages) :
       Cardinality({<<c, i>> \in UNION {{<<c, i>> : i \in 1..Len(columns[c])} :
                                          c \in DOMAIN columns} :
                      columns[c][i].uid = placedImages[j]}) = 1

\* Two calls are in flight at once and the first fill, a fill on top, a fill
\* of a new column and a fill at the bottom have all placed items.
C35_Witness ==
  /\ \E i, j \in 1..Len(calls) : i # j /\ CallStatus(i) = "pending" /\ CallStatus(j) = "pending"
  /\ \A fn \in {"fillColumnDownward", "extendColumnUpward", "populateNewColumn",
                "extendColumnDownward"} : \E it \in AllItems : it.fn = fn
  /\ Len(placedImages) > 3

\* C36: healColumnGaps terminates for every column and every supply of valid
\* images with new ids. Every image is at least 1 px high and the visible
\* gap is never wider than the viewport is high, so while the loop runs the
\* images it has inserted (one in each pass so far) number no more than the
\* pixels of the height of the viewport.
C36_HealingTerminates ==
  displayPc = "heal" => healCount * Px <= display.view.height

\* C37: in the AIC image generator at most one batch fetch is in flight at
\* any time, and the marker `inflight` is set exactly while one is; a
\* generator call or a refill issued while a fetch is pending starts no other
\* fetch and leaves the marker on that fetch; and the marker of a settled
\* fetch, fulfilled or rejected, is cleared and never handed on.
C37_OneBatchInFlight ==
  /\ [](/\ fetchHistory.running <= 1
        /\ (inflight = Null) <=> (fetchHistory.running = 0))
  /\ [][(inflight # Null /\ (awaiting' > awaiting \/ returned' # returned))
          => (inflight' = inflight /\ fetchHistory'.running = fetchHistory.running)]_vars
  /\ [][(inflight # Null /\ inflight.phase \in {"resolved", "rejected"}
           /\ inflight' # inflight)
          => inflight' = Null]_vars

\* Two generator calls wait for the one fetch that is running, after a fetch
\* that succeeded and a fetch that failed have both been cleared.
C37_Witness ==
  /\ awaiting = 2
  /\ inflight # Null
  /\ fetchHistory.running = 1
  /\ fetchHistory.cleared = {"resolved", "rejected"}

\* C38: in useGridItems only the result of the request issued last is ever
\* applied to the displayed items: whenever dynamicItems changes it takes the
\* result (or the empty list, after undefined or a failure) of the request
\* that is the latest one at that moment; the outcome of an earlier request
\* that arrives after a later request was issued changes nothing, in every
\* order of completion.
C38_LatestRequestWins ==
  /\ [](dynamicItems.request \notin gridRequests)
  /\ [][dynamicItems' # dynamicItems => dynamicItems'.request = requestIdRef']_vars
  /\ [][(\E r \in gridRequests : r \notin gridRequests' /\ r # requestIdRef)
          => dynamicItems' = dynamicItems]_vars

\* The first request has settled while the second was already issued and
\* still pending: its outcome was dropped, the items are still the initial ones.
C38_Witness ==
  /\ requestIdRef = 2
  /\ gridRequests = {2}
  /\ dynamicItems = NoItems

\* C39: in InfiniteArtGrid a page is fetched at most once as long as its fetch
\* did not fail: every page has at most one fetch that has not failed, and it
\* is in the requested set exactly while it has one. A failing fetch takes the
\* page out of the requested set, and a loadPage for a page that is not in the
\* set (never requested, or failed) fetches it.
C39_PageFetchedOnce ==
  /\ [](\A p \in GridPages :
          /\ pageLog.started[p] <= pageLog.failed[p] + 1
          /\ p \in requestedPages <=> pageLog.started[p] = pageLog.failed[p] + 1)
  /\ [][\A p \in GridPages :
          pageLog'.failed[p] > pageLog.failed[p] => p \notin requestedPages']_vars
  /\ [][\A p \in GridPages :
          (pageLog'.lastLoad # pageLog.lastLoad /\ pageLog'.lastLoad[1].page = p)
            => /\ pageLog'.lastLoad[1].fetched <=> p \notin requestedPages
               /\ pageLog'.started[p] =
                    pageLog.started[p] + (IF p \in requestedPages THEN 0 ELSE 1)]_vars

\* A page whose fetch failed twice is being fetched a third time, while a
\* loadPage for the other page, already loaded, has just returned early.
C39_Witness ==
  /\ \E p \in GridPages :
       /\ pageLog.failed[p] = 2
       /\ pageLog.started[p] = 3
       /\ p \in requestedPages
  /\ pageLog.lastLoad # Null
  /\ ~pageLog.lastLoad[1].fetched
  /\ pageLog.succeeded[pageLog.lastLoad[1].page] = 1

\* C40: in every reachable state of a SectorStore the recency order and the
\* sector map hold exactly the same keys, each key once in the order.
C40_OrderMatchesSectors ==
  /\ {order[i] : i \in 1..Len(order)} = DOMAIN sectors
  /\ Len(order) = Cardinality(DOMAIN sectors)

\* Sectors were evicted, at least two are resident, and a touch has put them
\* in an order other than that of their creation.
C40_Witness ==
  /\ Len(evicted) > 0
  /\ Len(order) >= 2
  /\ order # createLog

====
